---- MODULE Spec2Model ----
(***************************************************************************)
(* The financial projection engine of src/app.py: generate_projection and  *)
(* its helpers get_phased_growth_rate and month_index_for_date.            *)
(*                                                                         *)
(* Number conventions (the source computes in binary floating point):      *)
(*   - money is an integer number of rand; a quotient that the source      *)
(*     leaves fractional is rounded down to the rand (Div);                *)
(*   - a percentage or a fraction is an integer number of hundredths       *)
(*     (annual_raise 7 is 0.07, a plan fraction 75 is 0.75);               *)
(*   - per-plan client counts and workload hours are carried in hundredths *)
(*     (a fraction of a client count), exactly;                            *)
(*   - top-up unit prices are in cents;                                    *)
(*   - round() is Python's round-half-to-even on the exact quotient;       *)
(*   - a date is the integer (year * 12 + (month - 1)) * 32 + day, so that  *)
(*     dates compare as integers.                                          *)
(***************************************************************************)
EXTENDS Integers, Sequences, FiniteSets, TLC

\* Months between start_date and the latest end_date that is enumerated.
Horizon == 3
\* Number of calls of generate_projection in one behaviour.
MaxCalls == 2
\* Periods after the first in the long projections (those that cross the
\* twelfth period, where years_elapsed steps up).
LongRun == 12

----------------------------------------------------------------------------
\* Arithmetic helpers

Min2(a, b) == IF a <= b THEN a ELSE b

Max2(a, b) == IF a >= b THEN a ELSE b

Min3(a, b, c) == Min2(a, Min2(b, c))

\* a / b rounded down to the unit (b > 0)
Div(a, b) == a \div b

\* ceil(a / b) for b > 0: np.ceil of the quotient
CeilDiv(a, b) == -((-a) \div b)

\* int(round(n / d)) for d > 0: Python 3 rounds half to even
PyRound(n, d) ==
    LET q == n \div d
        r == n % d
    IN  IF 2 * r < d THEN q
        ELSE IF 2 * r > d THEN q + 1
        ELSE IF q % 2 = 0 THEN q ELSE q + 1

\* dict.get(k, default)
Get(f, k, default) == IF k \in DOMAIN f THEN f[k] ELSE default

RECURSIVE SumOver(_, _)
\* sum of f[k] for the keys k in S
SumOver(f, S) ==
    IF S = {} THEN 0
    ELSE LET k == CHOOSE x \in S : TRUE
         IN  f[k] + SumOver(f, S \ {k})

RECURSIVE SumSeq(_)
SumSeq(s) == IF s = <<>> THEN 0 ELSE Head(s) + SumSeq(Tail(s))

RECURSIVE Compound(_, _, _)
\* base * ((100 + pct) / 100) ** years, rounded down after every year
Compound(base, pct, years) ==
    IF years <= 0 THEN base
    ELSE Div(Compound(base, pct, years - 1) * (100 + pct), 100)

RECURSIVE Decay(_, _, _)
\* base * (factor / 100) ** years, rounded down after every year
Decay(base, factor, years) ==
    IF years <= 0 THEN base
    ELSE Div(Decay(base, factor, years - 1) * factor, 100)

----------------------------------------------------------------------------
\* Calendar

\* date(year, month, day)
DateOf(year, month, day) == (year * 12 + (month - 1)) * 32 + day

YearOf(d) == (d \div 32) \div 12

MonthOf(d) == ((d \div 32) % 12) + 1

DayOf(d) == d % 32

\* the number of days of a month of the Gregorian calendar
DaysInMonth(year, month) ==
    IF month = 2
    THEN IF (year % 4 = 0 /\ year % 100 # 0) \/ year % 400 = 0 THEN 29 ELSE 28
    ELSE IF month \in {4, 6, 9, 11} THEN 30 ELSE 31

\* d + relativedelta(months = n): the day is clipped to the end of the month
AddMonths(d, n) ==
    LET ord == (d \div 32) + n
        year == ord \div 12
        month == (ord % 12) + 1
    IN  DateOf(year, month, Min2(DayOf(d), DaysInMonth(year, month)))

\* frequency.lower(), falling back to "month"
NormFreq(frequency) ==
    IF frequency \in {"Month", "month"} THEN "month"
    ELSE IF frequency \in {"Quarter", "quarter"} THEN "quarter"
    ELSE IF frequency \in {"Year", "year"} THEN "year"
    ELSE "month"

periods_per_year(freq) ==
    IF freq = "month" THEN 12 ELSE IF freq = "quarter" THEN 4 ELSE 1

period_length_in_months(freq) ==
    IF freq = "month" THEN 1 ELSE IF freq = "quarter" THEN 3 ELSE 12

RECURSIVE DatesFrom(_, _, _)
\* while current_dt <= end_date: append, then step
DatesFrom(current_dt, end_date, step) ==
    IF current_dt <= end_date
    THEN <<current_dt>> \o DatesFrom(AddMonths(current_dt, step), end_date, step)
    ELSE <<>>

\* BuildDtList without the fallback for an empty list
BuildDtList_NoFallback(start_date, end_date, freq) ==
    DatesFrom(start_date, end_date, period_length_in_months(freq))

BuildDtList(start_date, end_date, freq) ==
    LET walked == DatesFrom(start_date, end_date, period_length_in_months(freq))
    IN  IF Len(walked) < 1
        THEN <<start_date, AddMonths(start_date, 1)>>
        ELSE walked

\* month_index_for_date giving 0 for a target in the month of the start too
month_index_for_date_ZeroInStartMonth(target_date, start_date, frequency) ==
    LET total_month_diff ==
            (YearOf(target_date) - YearOf(start_date)) * 12
            + (MonthOf(target_date) - MonthOf(start_date))
        freq == NormFreq(frequency)
    IN  IF total_month_diff <= 0 THEN 0
        ELSE IF freq = "month" THEN total_month_diff + 1
        ELSE IF freq = "quarter" THEN (total_month_diff \div 3) + 1
        ELSE (total_month_diff \div 12) + 1

\* 1-based index of the period in which target_date falls; 0 before the start
month_index_for_date(target_date, start_date, frequency) ==
    LET total_month_diff ==
            (YearOf(target_date) - YearOf(start_date)) * 12
            + (MonthOf(target_date) - MonthOf(start_date))
        freq == NormFreq(frequency)
    IN  IF total_month_diff < 0 THEN 0
        ELSE IF freq = "month" THEN total_month_diff + 1
        ELSE IF freq = "quarter" THEN (total_month_diff \div 3) + 1
        ELSE (total_month_diff \div 12) + 1

\* strftime("%Y-%m"), f"{year}-Q{qnum}", strftime("%Y")
TimeLabel(this_date, freq) ==
    IF freq = "month" THEN <<YearOf(this_date), MonthOf(this_date)>>
    ELSE IF freq = "quarter"
         THEN <<YearOf(this_date), "Q", ((MonthOf(this_date) - 1) \div 3) + 1>>
    ELSE <<YearOf(this_date)>>

----------------------------------------------------------------------------
\* Growth curve.  A rate is the exact fraction num / den of a percent.

Interpolate(i, start_month, end_month, start_rate, end_rate) ==
    LET total_span == end_month - start_month
    IN  IF total_span > 0
        THEN [num |-> start_rate * total_span
                      + (i - start_month) * (end_rate - start_rate),
              den |-> total_span]
        ELSE [num |-> start_rate, den |-> 1]

Flat(rate) == [num |-> rate, den |-> 1]

\* get_phased_growth_rate with phases that include their end_month
get_phased_growth_rate_ClosedPhases(month_idx, c) ==
    LET i == month_idx + 1
    IN  IF i < c.phase1_start_month THEN Flat(c.phase1_start_rate)
        ELSE IF c.phase1_start_month <= i /\ i <= c.phase1_end_month
        THEN Interpolate(i, c.phase1_start_month, c.phase1_end_month,
                         c.phase1_start_rate, c.phase1_end_rate)
        ELSE IF c.phase1_end_month <= i /\ i < c.phase2_start_month
        THEN Flat(c.phase1_end_rate)
        ELSE IF c.phase2_start_month <= i /\ i <= c.phase2_end_month
        THEN Interpolate(i, c.phase2_start_month, c.phase2_end_month,
                         c.phase2_start_rate, c.phase2_end_rate)
        ELSE IF c.phase2_end_month <= i /\ i < c.phase3_start_month
        THEN Flat(c.phase2_end_rate)
        ELSE IF c.phase3_start_month <= i /\ i <= c.phase3_end_month
        THEN Interpolate(i, c.phase3_start_month, c.phase3_end_month,
                         c.phase3_start_rate, c.phase3_end_rate)
        ELSE Flat(c.plateau_rate)

\* get_phased_growth_rate carrying phase 3's end rate on instead of the plateau
get_phased_growth_rate_CarriesPhase3(month_idx, c) ==
    LET i == month_idx + 1
    IN  IF i < c.phase1_start_month THEN Flat(c.phase1_start_rate)
        ELSE IF c.phase1_start_month <= i /\ i < c.phase1_end_month
        THEN Interpolate(i, c.phase1_start_month, c.phase1_end_month,
                         c.phase1_start_rate, c.phase1_end_rate)
        ELSE IF c.phase1_end_month <= i /\ i < c.phase2_start_month
        THEN Flat(c.phase1_end_rate)
        ELSE IF c.phase2_start_month <= i /\ i < c.phase2_end_month
        THEN Interpolate(i, c.phase2_start_month, c.phase2_end_month,
                         c.phase2_start_rate, c.phase2_end_rate)
        ELSE IF c.phase2_end_month <= i /\ i < c.phase3_start_month
        THEN Flat(c.phase2_end_rate)
        ELSE IF c.phase3_start_month <= i /\ i < c.phase3_end_month
        THEN Interpolate(i, c.phase3_start_month, c.phase3_end_month,
                         c.phase3_start_rate, c.phase3_end_rate)
        ELSE Flat(c.phase3_end_rate)

get_phased_growth_rate(month_idx, c) ==
    LET i == month_idx + 1
    IN  IF i < c.phase1_start_month THEN Flat(c.phase1_start_rate)
        ELSE IF c.phase1_start_month <= i /\ i < c.phase1_end_month
        THEN Interpolate(i, c.phase1_start_month, c.phase1_end_month,
                         c.phase1_start_rate, c.phase1_end_rate)
        ELSE IF c.phase1_end_month <= i /\ i < c.phase2_start_month
        THEN Flat(c.phase1_end_rate)
        ELSE IF c.phase2_start_month <= i /\ i < c.phase2_end_month
        THEN Interpolate(i, c.phase2_start_month, c.phase2_end_month,
                         c.phase2_start_rate, c.phase2_end_rate)
        ELSE IF c.phase2_end_month <= i /\ i < c.phase3_start_month
        THEN Flat(c.phase2_end_rate)
        ELSE IF c.phase3_start_month <= i /\ i < c.phase3_end_month
        THEN Interpolate(i, c.phase3_start_month, c.phase3_end_month,
                         c.phase3_start_rate, c.phase3_end_rate)
        ELSE Flat(c.plateau_rate)

----------------------------------------------------------------------------
\* Configuration: the keyword arguments of generate_projection

StartDate == DateOf(2025, 1, 1)

\* The arguments that every enumerated call shares; the arguments that the
\* calls vary are listed with the default of the signature.
BaseConfig ==
    [ start_date |-> StartDate,
      end_date |-> StartDate,
      frequency |-> "Month",
      initial_clients |-> 10,
      churn_rate_annual |-> 10,
      rd_investment_pct |-> 0,
      funding_rounds |-> << >>,
      enable_initial_loan |-> FALSE,
      initial_loan_amount |-> 0,
      loan_interest_rate_annual |-> 0,
      loan_payback_strategy |-> "none",
      loan_payback_start_month |-> 1,
      loan_payback_end_date |-> << >>,
      loan_fixed_amount |-> 0,
      loan_percent_of_profit |-> 0,
      loan_lump_sum |-> 0,
      lump_sum_paid |-> FALSE,
      phase1_start_month |-> 1, phase1_end_month |-> 3,
      phase1_start_rate |-> 3,  phase1_end_rate |-> 5,
      phase2_start_month |-> 4, phase2_end_month |-> 8,
      phase2_start_rate |-> 6,  phase2_end_rate |-> 15,
      phase3_start_month |-> 9, phase3_end_month |-> 12,
      phase3_start_rate |-> 16, phase3_end_rate |-> 25,
      plateau_rate |-> 10,
      initial_cash |-> 50000,
      client_plan_distribution |-> [Basic |-> 75, Pro |-> 25],
      plans_info |->
        [Basic |-> [monthly_cos |-> 2000, setup_cos |-> 3000,
                    monthly_selling_price |-> 5000, setup_selling_price |-> 4000],
         Pro   |-> [monthly_cos |-> 4000, setup_cos |-> 5000,
                    monthly_selling_price |-> 12000, setup_selling_price |-> 8000]],
      topup_users_pct |-> 20,
      topup_utilization_pct |-> 10,
      topup_cost_per_unit_msg |-> 5, topup_price_per_unit_msg |-> 8,
      topup_cost_per_unit_min |-> 5, topup_price_per_unit_min |-> 8,
      included_quota_per_plan |-> [Basic |-> <<5000, 300>>, Pro |-> <<10000, 600>>],
      rd_revenue_pct |-> 5,
      fixed_staff_info |->
        [CEO |-> [headcount |-> 1, base_salary |-> 60000, annual_raise |-> 7]],
      variable_staff_info |->
        ("Onboarding Specialist" :>
            [headcount |-> 0, base_salary |-> 3000, annual_raise |-> 5,
             capacity |-> 160])
        @@ ("Technical Support Programmers" :>
            [headcount |-> 2, base_salary |-> 3500, annual_raise |-> 5,
             capacity |-> 160])
        @@ ("Account Manager" :>
            [headcount |-> 1, base_salary |-> 4000, annual_raise |-> 5,
             capacity |-> 0]),
      onboarding_hours_per_plan |-> [Basic |-> 12, Pro |-> 20],
      monthly_maintenance_hrs_per_plan |-> [Basic |-> 4, Pro |-> 8],
      onboarding_decrease_factors_per_plan |-> [Basic |-> 100],
      maintenance_decrease_factors_per_plan |-> [Basic |-> 100, Pro |-> 90],
      overhead_items |->
        << [monthly_cost |-> 10000, annual_increase |-> 5],
           [monthly_cost |-> 3000, annual_increase |-> 5] >>,
      marketing_mode |-> "fixed",
      marketing_budget |-> 20000,
      marketing_pct_of_revenue |-> 10,
      hardware_cost_per_employee |-> 500 ]

\* frequency and end_date: an end before the start, and one Horizon months on
CalendarChoices ==
    { [frequency |-> f, end_date |-> AddMonths(StartDate, Horizon)] :
        f \in {"Month", "Quarter", "Year"} }
    \cup { [frequency |-> "Month", end_date |-> AddMonths(StartDate, -1)] }

\* initial_clients and churn_rate_annual (a churn of 1500 a year is above
\* 100 percent in every period of every frequency)
ClientChoices ==
    { [initial_clients |-> 0,  churn_rate_annual |-> 10],
      [initial_clients |-> 40, churn_rate_annual |-> 10],
      [initial_clients |-> 40, churn_rate_annual |-> 1500] }

Round(trigger, amt) == [month_trigger |-> trigger, amount |-> amt]

FundingLists ==
    { << >>,
      << Round(1, 20000), Round(2, 50000) >>,
      << Round(2, 50000), Round(2, 20000) >>,
      << Round(-1, 50000), Round(1, 500000), Round(200, 20000) >> }

FundingChoices ==
    { [funding_rounds |-> fr, rd_investment_pct |-> p] :
        fr \in FundingLists, p \in {0, 10} }
    \ { [funding_rounds |-> << >>, rd_investment_pct |-> 10] }

Strategies ==
    {"none", "fixed", "Percentage of Profit",
     "Percentage of Profit + Lump", "Lump + Timeline"}

LoanRecord(en, amt, rate, strat, start_m, end_d, fixed_amt, perc, lump, paid) ==
    [ enable_initial_loan |-> en, initial_loan_amount |-> amt,
      loan_interest_rate_annual |-> rate, loan_payback_strategy |-> strat,
      loan_payback_start_month |-> start_m, loan_payback_end_date |-> end_d,
      loan_fixed_amount |-> fixed_amt, loan_percent_of_profit |-> perc,
      loan_lump_sum |-> lump, lump_sum_paid |-> paid ]

\* loan_payback_end_date: << >> is None, <<d>> is the date d
EndDates == { << >>, << AddMonths(StartDate, 1) >> }

LumpSums == {0, 30000, 500000}

\* The loan arguments as the input form builds them: the strategy's own
\* parameters are entered, the others are 0; without a loan all are 0.
LoanChoices ==
    { LoanRecord(FALSE, 0, 0, "none", 1, << >>, 0, 0, 0, FALSE),
      LoanRecord(FALSE, 400000, 12, "fixed", 1, << >>, 5000, 0, 0, FALSE),
      LoanRecord(TRUE, 0, 12, "Percentage of Profit", 1, << >>, 0, 50, 0, FALSE) }
    \cup
    UNION { UNION { UNION {
        { LoanRecord(TRUE, amt, rate, "none", sm, << >>, 0, 0, 0, FALSE) }
        \cup { LoanRecord(TRUE, amt, rate, "fixed", sm, << >>, fa, 0, 0, FALSE) :
                 fa \in {0, 5000, 500000} }
        \cup { LoanRecord(TRUE, amt, rate, "Percentage of Profit", sm, << >>,
                          0, pc, 0, FALSE) : pc \in {0, 50, 100} }
        \cup { LoanRecord(TRUE, amt, rate, "Percentage of Profit + Lump", sm,
                          << >>, 0, pc, l, pd) :
                 pc \in {0, 50}, l \in LumpSums, pd \in BOOLEAN }
        \cup { LoanRecord(TRUE, amt, rate, "Lump + Timeline", sm, ed, 0, 0, l, pd) :
                 ed \in EndDates, l \in LumpSums, pd \in BOOLEAN }
        : sm \in {1, 2} } : rate \in {0, 12} } : amt \in {60000, 400000} }

Configs ==
    { [BaseConfig EXCEPT
         !.frequency = cal.frequency,
         !.end_date = cal.end_date,
         !.initial_clients = cl.initial_clients,
         !.churn_rate_annual = cl.churn_rate_annual,
         !.funding_rounds = fu.funding_rounds,
         !.rd_investment_pct = fu.rd_investment_pct,
         !.enable_initial_loan = lo.enable_initial_loan,
         !.initial_loan_amount = lo.initial_loan_amount,
         !.loan_interest_rate_annual = lo.loan_interest_rate_annual,
         !.loan_payback_strategy = lo.loan_payback_strategy,
         !.loan_payback_start_month = lo.loan_payback_start_month,
         !.loan_payback_end_date = lo.loan_payback_end_date,
         !.loan_fixed_amount = lo.loan_fixed_amount,
         !.loan_percent_of_profit = lo.loan_percent_of_profit,
         !.loan_lump_sum = lo.loan_lump_sum,
         !.lump_sum_paid = lo.lump_sum_paid] :
        cal \in CalendarChoices, cl \in ClientChoices,
        fu \in FundingChoices, lo \in LoanChoices }

----------------------------------------------------------------------------
\* Configuration: long projections, growth curves, calendars with days of the
\* month, and arguments on which the loop raises

\* the end_date that gives n periods after the first
EndAfter(start_date, frequency, n) ==
    AddMonths(start_date, n * period_length_in_months(NormFreq(frequency)))

\* the growth arguments; a phase is <<start_month, end_month, start_rate, end_rate>>
Phases(p1, p2, p3, plateau) ==
    [ phase1_start_month |-> p1[1], phase1_end_month |-> p1[2],
      phase1_start_rate |-> p1[3],  phase1_end_rate |-> p1[4],
      phase2_start_month |-> p2[1], phase2_end_month |-> p2[2],
      phase2_start_rate |-> p2[3],  phase2_end_rate |-> p2[4],
      phase3_start_month |-> p3[1], phase3_end_month |-> p3[2],
      phase3_start_rate |-> p3[3],  phase3_end_rate |-> p3[4],
      plateau_rate |-> plateau ]

\* phases in order: the defaults of the input form and of the signature,
\* phases that share their boundaries, growth that stops after two periods
OrderedPhases ==
    { Phases(<<1, 6, 18, 22>>, <<7, 12, 22, 28>>, <<13, 18, 28, 32>>, 5),
      Phases(<<1, 3, 3, 5>>, <<4, 8, 6, 15>>, <<9, 12, 16, 25>>, 10),
      Phases(<<1, 3, 3, 5>>, <<3, 6, 6, 15>>, <<6, 9, 16, 25>>, 10),
      Phases(<<1, 3, 3, 5>>, <<3, 6, 6, 15>>, <<8, 10, 16, 25>>, 10),
      Phases(<<2, 4, 3, 5>>, <<6, 8, 7, 15>>, <<10, 11, 16, 25>>, 10),
      Phases(<<1, 3, 20, 20>>, <<3, 5, 0, 0>>, <<5, 6, 0, 0>>, 0) }

\* phases of no length (start = end), alone and on a shared boundary
DegeneratePhases ==
    { Phases(<<1, 4, 3, 5>>, <<4, 4, 6, 15>>, <<6, 9, 16, 25>>, 10),
      Phases(<<2, 2, 3, 5>>, <<5, 5, 6, 15>>, <<7, 7, 16, 25>>, 10),
      Phases(<<1, 3, 3, 5>>, <<4, 6, 6, 15>>, <<6, 6, 16, 25>>, 10) }

\* phases that overlap, are out of order, or end before they start
OverlappingPhases ==
    { Phases(<<1, 6, 3, 5>>, <<4, 10, 6, 15>>, <<2, 5, 16, 25>>, 10),
      Phases(<<8, 6, 3, 5>>, <<9, 11, 6, 15>>, <<11, 12, 16, 25>>, 10),
      Phases(<<7, 9, 3, 5>>, <<1, 3, 6, 15>>, <<4, 6, 16, 25>>, 10) }

\* growth rates that are all 0, or all 0 or below
ShrinkingPhases ==
    { Phases(<<1, 3, 0, 0>>, <<4, 8, 0, 0>>, <<9, 12, 0, 0>>, 0),
      Phases(<<1, 3, -3, 0>>, <<4, 8, -6, -15>>, <<9, 12, 0, -25>>, -10) }

WithPhases(c, ph) ==
    [c EXCEPT
       !.phase1_start_month = ph.phase1_start_month,
       !.phase1_end_month = ph.phase1_end_month,
       !.phase1_start_rate = ph.phase1_start_rate,
       !.phase1_end_rate = ph.phase1_end_rate,
       !.phase2_start_month = ph.phase2_start_month,
       !.phase2_end_month = ph.phase2_end_month,
       !.phase2_start_rate = ph.phase2_start_rate,
       !.phase2_end_rate = ph.phase2_end_rate,
       !.phase3_start_month = ph.phase3_start_month,
       !.phase3_end_month = ph.phase3_end_month,
       !.phase3_start_rate = ph.phase3_start_rate,
       !.phase3_end_rate = ph.phase3_end_rate,
       !.plateau_rate = ph.plateau_rate]

\* monthly and quarterly projections of LongRun + 1 periods along each curve
GrowthConfigs ==
    { WithPhases([BaseConfig EXCEPT
                    !.frequency = f,
                    !.end_date = EndAfter(StartDate, f, LongRun)], ph) :
        f \in {"Month", "Quarter"},
        ph \in OrderedPhases \cup DegeneratePhases \cup OverlappingPhases }

\* projections of LongRun + 1 periods of every frequency without growth
ShrinkingConfigs ==
    { WithPhases([BaseConfig EXCEPT
                    !.frequency = f,
                    !.end_date = EndAfter(StartDate, f, LongRun),
                    !.initial_clients = 40,
                    !.churn_rate_annual = ch], ph) :
        f \in {"Month", "Quarter", "Year"}, ch \in {10, 60},
        ph \in ShrinkingPhases }

\* start_date on a day inside the month and on the last day of a month
StartDates == { DateOf(2025, 1, 15), DateOf(2025, 1, 31) }

\* dates around a start date: before it (in an earlier month and in its own
\* month), the date itself, and later ones up to the next year
DatesAround(start_date) ==
    { DateOf(2024, 12, 20), DateOf(2025, 1, 10), start_date,
      DateOf(2025, 2, 14), DateOf(2025, 2, 15), DateOf(2025, 4, 30),
      DateOf(2026, 1, 14), DateOf(2026, 3, 1) }

\* every frequency with an end_date before, at and after the start_date
CalendarConfigs ==
    UNION { { [BaseConfig EXCEPT
                 !.frequency = f, !.start_date = sd, !.end_date = ed] :
                f \in {"Month", "Quarter", "Year"}, ed \in DatesAround(sd) } :
            sd \in StartDates }

\* "Lump + Timeline" with a loan_payback_end_date before, at and after the
\* start_date, for every frequency
PaybackEndConfigs ==
    { [BaseConfig EXCEPT
         !.frequency = f,
         !.start_date = DateOf(2025, 1, 15),
         !.end_date = DateOf(2025, 7, 15),
         !.initial_clients = 40,
         !.enable_initial_loan = TRUE,
         !.initial_loan_amount = 60000,
         !.loan_interest_rate_annual = 12,
         !.loan_payback_strategy = "Lump + Timeline",
         !.loan_lump_sum = lump,
         !.loan_payback_start_month = start,
         !.loan_payback_end_date = << target >>] :
        f \in {"Month", "Quarter", "Year"},
        lump \in {0, 20000}, start \in {1, 2},
        target \in DatesAround(DateOf(2025, 1, 15)) }

\* {"month_trigger": trigger, "amount": None}
RoundWithoutAmount(trigger) == [month_trigger |-> trigger, amount_none |-> TRUE]

\* arguments on which the loop raises: a plan without its
\* monthly_selling_price, funding rounds whose amount is None
RaisingConfigs ==
    { [BaseConfig EXCEPT
         !.frequency = f,
         !.end_date = AddMonths(StartDate, Horizon),
         !.plans_info =
             [Basic |-> [monthly_cos |-> 2000, setup_cos |-> 3000,
                         setup_selling_price |-> 4000],
              Pro   |-> BaseConfig.plans_info.Pro]] :
        f \in {"Month", "Quarter"} }
    \cup
    { [BaseConfig EXCEPT
         !.frequency = f,
         !.end_date = AddMonths(StartDate, Horizon),
         !.initial_clients = 40,
         !.funding_rounds = fr] :
        f \in {"Month", "Quarter"},
        fr \in { << RoundWithoutAmount(1) >>,
                 << Round(1, 20000), RoundWithoutAmount(2) >>,
                 << Round(1, 20000), RoundWithoutAmount(3), Round(4, 50000) >>,
                 << Round(2, 50000), RoundWithoutAmount(200) >> } }

\* a variable role with a capacity whose name has neither "Onboarding" nor
\* "Technical", over cohorts that start empty or full and grow or stand still
StaffConfigs ==
    { WithPhases([BaseConfig EXCEPT
                    !.frequency = f,
                    !.end_date = EndAfter(StartDate, f, LongRun),
                    !.initial_clients = n,
                    !.variable_staff_info =
                        BaseConfig.variable_staff_info
                        @@ ("Sales Engineer" :>
                               [headcount |-> 3, base_salary |-> 5000,
                                annual_raise |-> 5, capacity |-> 160])], ph) :
        f \in {"Month", "Quarter"}, n \in {0, 40},
        ph \in { Phases(<<1, 3, 20, 20>>, <<3, 5, 0, 0>>, <<5, 6, 0, 0>>, 0),
                 Phases(<<1, 3, 0, 0>>, <<3, 5, 10, 30>>, <<5, 6, 0, 0>>, 5) } }

EdgeConfigs ==
    GrowthConfigs \cup ShrinkingConfigs \cup CalendarConfigs
    \cup PaybackEndConfigs \cup RaisingConfigs \cup StaffConfigs

----------------------------------------------------------------------------
\* One period of the loop of generate_projection, section by section

\* "Onboarding" in role
HasOnboarding(role) == role \in {"Onboarding Specialist"}

\* "Technical" in role
HasTechnical(role) == role \in {"Technical Support Programmers"}

\* YearsElapsed counting the period itself (the 1-based index)
YearsElapsed_OneBased(idx) == (idx + 1) \div 12

\* years_elapsed = int(months_from_start / 12.0), months_from_start = idx
YearsElapsed(idx) == idx \div 12

\* EndClients without the floor at 0
EndClients_NoFloor(start_c, organic_new_c, churned_c) ==
    start_c + organic_new_c - churned_c

\* end_c: the cohort after growth and churn, floored at 0
EndClients(start_c, organic_new_c, churned_c) ==
    LET end_c == start_c + organic_new_c - churned_c
    IN  IF end_c < 0 THEN 0 ELSE end_c

\* ClientStep applying a growth rate of 0 or below as well
ClientStep_AppliesNegativeGrowth(c, idx, start_c) ==
    LET rate == get_phased_growth_rate(idx, c)
        ppy == periods_per_year(NormFreq(c.frequency))
        organic_new_c == PyRound(start_c * rate.num, 100 * rate.den)
        churned_c == PyRound(start_c * c.churn_rate_annual, 100 * ppy)
    IN  [ this_growth_rate |-> rate,
          start_c |-> start_c,
          organic_new_c |-> organic_new_c,
          churned_c |-> churned_c,
          end_c |-> EndClients(start_c, organic_new_c, churned_c) ]

\* ClientStep starting every period from initial_clients
ClientStep_StartsFromInitial(c, idx, start_c) ==
    LET rate == get_phased_growth_rate(idx, c)
        ppy == periods_per_year(NormFreq(c.frequency))
        organic_new_c ==
            IF rate.num > 0
            THEN PyRound(c.initial_clients * rate.num, 100 * rate.den)
            ELSE 0
        churned_c == PyRound(c.initial_clients * c.churn_rate_annual, 100 * ppy)
    IN  [ this_growth_rate |-> rate,
          start_c |-> c.initial_clients,
          organic_new_c |-> organic_new_c,
          churned_c |-> churned_c,
          end_c |-> EndClients(c.initial_clients, organic_new_c, churned_c) ]

\* client cohort: start, organic new, churned, end
ClientStep(c, idx, start_c) ==
    LET rate == get_phased_growth_rate(idx, c)
        ppy == periods_per_year(NormFreq(c.frequency))
        organic_new_c ==
            IF rate.num > 0
            THEN PyRound(start_c * rate.num, 100 * rate.den)
            ELSE 0
        churned_c == PyRound(start_c * c.churn_rate_annual, 100 * ppy)
    IN  [ this_growth_rate |-> rate,
          start_c |-> start_c,
          organic_new_c |-> organic_new_c,
          churned_c |-> churned_c,
          end_c |-> EndClients(start_c, organic_new_c, churned_c) ]

\* subscription and setup revenue and cost, summed over plans_info
RevenueStep(c, cl) ==
    LET plen == period_length_in_months(NormFreq(c.frequency))
        dist == c.client_plan_distribution
        plans == DOMAIN c.plans_info
        \* plan_splits_for_new.get(plan_n, 0), in hundredths of a client
        new_for(plan_n) == cl.organic_new_c * Get(dist, plan_n, 0)
        sub(plan_n, key) ==
            Div((cl.start_c + cl.end_c) * Get(dist, plan_n, 0)
                * (c.plans_info[plan_n][key] * plen), 200)
        setup(plan_n, key) ==
            Div(new_for(plan_n) * Get(c.plans_info[plan_n], key, 0), 100)
    IN  [ rev_sub   |-> SumOver([p \in plans |-> sub(p, "monthly_selling_price")], plans),
          cos_sub   |-> SumOver([p \in plans |-> sub(p, "monthly_cos")], plans),
          rev_setup |-> SumOver([p \in plans |-> setup(p, "setup_selling_price")], plans),
          cos_setup |-> SumOver([p \in plans |-> setup(p, "setup_cos")], plans) ]

\* top-up (overage) revenue and cost, summed over plans_info
TopUpStep(c, cl) ==
    LET plen == period_length_in_months(NormFreq(c.frequency))
        plans == DOMAIN c.plans_info
        \* buyers, in hundredths of a client
        buyers(plan_n) ==
            Div(cl.end_c * Get(c.client_plan_distribution, plan_n, 0)
                * c.topup_users_pct, 100)
        quota(plan_n) == Get(c.included_quota_per_plan, plan_n, <<0, 0>>)
        extra_units(plan_n, k) ==
            Div(quota(plan_n)[k] * plen * c.topup_utilization_pct, 100)
        total_extra(plan_n, k) == Div(buyers(plan_n) * extra_units(plan_n, k), 100)
        rev(plan_n) ==
            Div(total_extra(plan_n, 1) * c.topup_price_per_unit_msg, 100)
            + Div(total_extra(plan_n, 2) * c.topup_price_per_unit_min, 100)
        cos(plan_n) ==
            Div(total_extra(plan_n, 1) * c.topup_cost_per_unit_msg, 100)
            + Div(total_extra(plan_n, 2) * c.topup_cost_per_unit_min, 100)
    IN  [ topup_revenue |-> SumOver([p \in plans |-> rev(p)], plans),
          topup_cos     |-> SumOver([p \in plans |-> cos(p)], plans) ]

\* fixed staff payroll and headcount
FixedStaffStep(c, idx) ==
    LET plen == period_length_in_months(NormFreq(c.frequency))
        roles == DOMAIN c.fixed_staff_info
        cost(role) ==
            LET sdat == c.fixed_staff_info[role]
            IN  Compound(sdat.base_salary, sdat.annual_raise, YearsElapsed(idx))
                * plen * sdat.headcount
    IN  [ staff_cost_fixed  |-> SumOver([r \in roles |-> cost(r)], roles),
          total_fixed_staff |->
              SumOver([r \in roles |-> c.fixed_staff_info[r].headcount], roles) ]

\* total_onboard_hrs, in hundredths of an hour
OnboardHours(c, idx, cl) ==
    LET plans == DOMAIN c.client_plan_distribution
        hrs(plan_n) ==
            IF plan_n \in DOMAIN c.onboarding_hours_per_plan
            THEN cl.organic_new_c * c.client_plan_distribution[plan_n]
                 * Decay(c.onboarding_hours_per_plan[plan_n],
                         Get(c.onboarding_decrease_factors_per_plan, plan_n, 100),
                         YearsElapsed(idx))
            ELSE 0
    IN  SumOver([p \in plans |-> hrs(p)], plans)

\* total_technical_hrs, in hundredths of an hour
TechnicalHours(c, idx, cl) ==
    LET plen == period_length_in_months(NormFreq(c.frequency))
        plans == DOMAIN c.client_plan_distribution
        hrs(plan_n) ==
            IF plan_n \in DOMAIN c.monthly_maintenance_hrs_per_plan
            THEN cl.end_c * c.client_plan_distribution[plan_n]
                 * (Decay(c.monthly_maintenance_hrs_per_plan[plan_n],
                          Get(c.maintenance_decrease_factors_per_plan, plan_n, 100),
                          YearsElapsed(idx)) * plen)
            ELSE 0
    IN  SumOver([p \in plans |-> hrs(p)], plans)

HIRE_COST_PER_EMPLOYEE == 10000

TERMINATE_COST_PER_EMPLOYEE == 5000

\* RequiredStaff never below the default of 1
RequiredStaff_AtLeastOne(role, capacity, total_onboard_hrs, total_technical_hrs) ==
    IF capacity > 0
    THEN IF HasOnboarding(role)
         THEN Max2(1, CeilDiv(total_onboard_hrs, 100 * capacity))
         ELSE IF HasTechnical(role)
         THEN Max2(1, CeilDiv(total_technical_hrs, 100 * capacity))
         ELSE 1
    ELSE 1

\* required_staff of one variable role
RequiredStaff(role, capacity, total_onboard_hrs, total_technical_hrs) ==
    IF capacity > 0
    THEN IF HasOnboarding(role) THEN CeilDiv(total_onboard_hrs, 100 * capacity)
         ELSE IF HasTechnical(role) THEN CeilDiv(total_technical_hrs, 100 * capacity)
         ELSE 1
    ELSE 1

\* RoleCost charging the hire cost for every required employee
RoleCost_HiresAllRequired(base_salary, plen, required_staff, current_staff) ==
    IF required_staff > current_staff
    THEN (base_salary * plen * required_staff)
         + (HIRE_COST_PER_EMPLOYEE * required_staff)
    ELSE IF required_staff < current_staff
    THEN (base_salary * plen * required_staff)
         + (TERMINATE_COST_PER_EMPLOYEE * (current_staff - required_staff))
    ELSE base_salary * plen * required_staff

\* cost of one variable role against the stored headcount of the role
RoleCost(base_salary, plen, required_staff, current_staff) ==
    IF required_staff > current_staff
    THEN (base_salary * plen * required_staff)
         + (HIRE_COST_PER_EMPLOYEE * (required_staff - current_staff))
    ELSE IF required_staff < current_staff
    THEN (base_salary * plen * required_staff)
         + (TERMINATE_COST_PER_EMPLOYEE * (current_staff - required_staff))
    ELSE base_salary * plen * required_staff

\* StoredHeadcount leaving the stored headcount as it is after a termination
StoredHeadcount_KeptOnTermination(required_staff, current_staff) ==
    IF required_staff > current_staff THEN required_staff ELSE current_staff

\* current_variable_staff_headcount[role] after the role was costed
StoredHeadcount(required_staff, current_staff) ==
    IF required_staff > current_staff THEN required_staff
    ELSE IF required_staff < current_staff THEN required_staff
    ELSE current_staff

\* variable staff: cost, headcount and the stored headcounts after the period
VariableStaffStep(c, idx, cl, headcount) ==
    LET plen == period_length_in_months(NormFreq(c.frequency))
        roles == DOMAIN c.variable_staff_info
        onb == OnboardHours(c, idx, cl)
        tech == TechnicalHours(c, idx, cl)
        required(role) ==
            RequiredStaff(role, c.variable_staff_info[role].capacity, onb, tech)
        salary(role) ==
            Compound(c.variable_staff_info[role].base_salary,
                     c.variable_staff_info[role].annual_raise, YearsElapsed(idx))
        cost(role) ==
            RoleCost(salary(role), plen, required(role), Get(headcount, role, 0))
    IN  [ total_onboard_hrs    |-> onb,
          total_technical_hrs  |-> tech,
          required_staff       |-> [r \in roles |-> required(r)],
          role_cost            |-> [r \in roles |-> cost(r)],
          staff_cost_variable  |-> SumOver([r \in roles |-> cost(r)], roles),
          total_variable_staff |-> SumOver([r \in roles |-> required(r)], roles),
          headcount |->
              [r \in DOMAIN headcount \cup roles |->
                  IF r \in roles
                  THEN StoredHeadcount(required(r), Get(headcount, r, 0))
                  ELSE headcount[r]] ]

\* overhead items with annual inflation
OverheadStep(c, idx) ==
    LET plen == period_length_in_months(NormFreq(c.frequency))
        item(k) ==
            Compound(c.overhead_items[k].monthly_cost,
                     c.overhead_items[k].annual_increase, YearsElapsed(idx)) * plen
    IN  SumSeq([k \in DOMAIN c.overhead_items |-> item(k)])

\* marketing spend of the period
MarketingStep(c, total_revenue) ==
    LET plen == period_length_in_months(NormFreq(c.frequency))
        marketing_spend_with_pct == Div(total_revenue * c.marketing_pct_of_revenue, 100)
        marketing_budget_for_period == c.marketing_budget * plen
    IN  IF c.marketing_mode = "fixed"
        THEN IF 10 * marketing_spend_with_pct > 12 * marketing_budget_for_period
             THEN marketing_spend_with_pct
             ELSE marketing_budget_for_period
        ELSE marketing_spend_with_pct

\* TotalRevenue leaving the top-up revenue out
TotalRevenue_WithoutTopUp(rev_sub, rev_setup, topup_revenue) ==
    rev_sub + rev_setup

\* total_revenue of the period
TotalRevenue(rev_sub, rev_setup, topup_revenue) ==
    rev_sub + rev_setup + topup_revenue

----------------------------------------------------------------------------
\* Funding rounds and the loan

\* FundingStep recognizing a round in its trigger period and every later one
FundingStep_FromTrigger(c, idx) ==
    LET fired == { k \in DOMAIN c.funding_rounds :
                     /\ c.funding_rounds[k].month_trigger >= 1
                     /\ c.funding_rounds[k].month_trigger <= idx + 1 }
    IN  [ fin_flow |->
              SumOver([k \in fired |-> c.funding_rounds[k].amount], fired),
          rd_cut |->
              SumOver([k \in fired |->
                         Div(c.funding_rounds[k].amount * c.rd_investment_pct, 100)],
                      fired) ]

\* FundingStep counting only the first of the rounds that share a trigger
FundingStep_OneRoundPerPeriod(c, idx) ==
    LET fired == { k \in DOMAIN c.funding_rounds :
                     c.funding_rounds[k].month_trigger = idx + 1 }
        first == IF fired = {} THEN {}
                 ELSE { CHOOSE k \in fired : \A j \in fired : k <= j }
    IN  [ fin_flow |->
              SumOver([k \in first |-> c.funding_rounds[k].amount], first),
          rd_cut |->
              SumOver([k \in first |->
                         Div(c.funding_rounds[k].amount * c.rd_investment_pct, 100)],
                      first) ]

\* fin_flow and the R&D cut of the rounds whose month_trigger is idx + 1
FundingStep(c, idx) ==
    LET fired == { k \in DOMAIN c.funding_rounds :
                     c.funding_rounds[k].month_trigger = idx + 1 }
    IN  [ fin_flow |->
              SumOver([k \in fired |-> c.funding_rounds[k].amount], fired),
          rd_cut |->
              SumOver([k \in fired |->
                         Div(c.funding_rounds[k].amount * c.rd_investment_pct, 100)],
                      fired) ]

\* opex after the funding rounds of the period: opex += rd_cut
OpexWithCuts(opex, rd_cut) == opex + rd_cut

\* InterestForPeriod on one month, whatever the length of the period
InterestForPeriod_IgnoresPeriodLength(c, balance) ==
    IF balance > 0
    THEN Div(balance * c.loan_interest_rate_annual, 1200)
    ELSE 0

\* InterestForPeriod on the initial loan amount, not on the balance
InterestForPeriod_OnPrincipal(c, balance) ==
    IF c.enable_initial_loan
    THEN Div(c.initial_loan_amount * c.loan_interest_rate_annual
             * period_length_in_months(NormFreq(c.frequency)), 1200)
    ELSE 0

\* interest_for_period on the balance carried into the period
InterestForPeriod(c, balance) ==
    IF balance > 0
    THEN Div(balance * c.loan_interest_rate_annual
             * period_length_in_months(NormFreq(c.frequency)), 1200)
    ELSE 0

\* loan_payback_end_month_index
LoanPaybackEndMonthIndex(c) ==
    IF c.loan_payback_strategy = "Lump + Timeline" /\ c.loan_payback_end_date # << >>
    THEN month_index_for_date(c.loan_payback_end_date[1], c.start_date, c.frequency)
    ELSE 999999

\* The payback branches work on a record s of the loop's running values:
\* loan_balance, loan_payment, net_income, fin_flow, lumpsum_already_paid,
\* and lump, the lump portion paid in the period (recorded for the checks).

\* PayFixed without the cap at the net income
PayFixed_NoIncomeCap(c, s) ==
    LET pay_amt ==
            Min2(c.loan_fixed_amount * period_length_in_months(NormFreq(c.frequency)),
                 s.loan_balance)
    IN  [s EXCEPT !.loan_balance = @ - pay_amt,
                  !.loan_payment = pay_amt,
                  !.net_income = @ - pay_amt]

PayFixed(c, s) ==
    LET pay_amt ==
            Min3(c.loan_fixed_amount * period_length_in_months(NormFreq(c.frequency)),
                 s.loan_balance, Max2(0, s.net_income))
    IN  [s EXCEPT !.loan_balance = @ - pay_amt,
                  !.loan_payment = pay_amt,
                  !.net_income = @ - pay_amt]

PayPercentage(c, s) ==
    IF s.net_income > 0
    THEN LET portion ==
                 Min2(Div(s.net_income * c.loan_percent_of_profit, 100), s.loan_balance)
         IN  [s EXCEPT !.loan_balance = @ - portion,
                       !.loan_payment = portion,
                       !.net_income = @ - portion]
    ELSE s

\* PayLumpFromFunding without the cap at the balance
PayLumpFromFunding_NoBalanceCap(c, s) ==
    IF ~s.lumpsum_already_paid /\ c.loan_lump_sum > 0
    THEN LET pay_now == Min2(c.loan_lump_sum, s.fin_flow)
         IN  [s EXCEPT !.loan_balance = @ - pay_now,
                       !.loan_payment = @ + pay_now,
                       !.fin_flow = @ - pay_now,
                       !.lump = @ + pay_now,
                       !.lumpsum_already_paid =
                           IF pay_now = c.loan_lump_sum THEN TRUE ELSE @]
    ELSE s

\* PayLumpFromFunding charging the lump to the net income, not to fin_flow
PayLumpFromFunding_FromNetIncome(c, s) ==
    IF ~s.lumpsum_already_paid /\ c.loan_lump_sum > 0
    THEN LET pay_now == Min3(c.loan_lump_sum, s.loan_balance, s.fin_flow)
         IN  [s EXCEPT !.loan_balance = @ - pay_now,
                       !.loan_payment = @ + pay_now,
                       !.net_income = @ - pay_now,
                       !.lump = @ + pay_now,
                       !.lumpsum_already_paid =
                           IF pay_now = c.loan_lump_sum THEN TRUE ELSE @]
    ELSE s

\* the lump part of "Percentage of Profit + Lump", drawn from fin_flow
PayLumpFromFunding(c, s) ==
    IF ~s.lumpsum_already_paid /\ c.loan_lump_sum > 0
    THEN LET pay_now == Min3(c.loan_lump_sum, s.loan_balance, s.fin_flow)
         IN  [s EXCEPT !.loan_balance = @ - pay_now,
                       !.loan_payment = @ + pay_now,
                       !.fin_flow = @ - pay_now,
                       !.lump = @ + pay_now,
                       !.lumpsum_already_paid =
                           IF pay_now = c.loan_lump_sum THEN TRUE ELSE @]
    ELSE s

\* PayPercentageAfterLump assigning the payment instead of adding to it
PayPercentageAfterLump_OverwritesPayment(c, s) ==
    IF c.loan_percent_of_profit > 0 /\ s.net_income > 0 /\ s.loan_balance > 0
    THEN LET portion ==
                 Min2(Div(s.net_income * c.loan_percent_of_profit, 100), s.loan_balance)
         IN  [s EXCEPT !.loan_balance = @ - portion,
                       !.loan_payment = portion,
                       !.net_income = @ - portion]
    ELSE s

\* the profit part of "Percentage of Profit + Lump"
PayPercentageAfterLump(c, s) ==
    IF c.loan_percent_of_profit > 0 /\ s.net_income > 0 /\ s.loan_balance > 0
    THEN LET portion ==
                 Min2(Div(s.net_income * c.loan_percent_of_profit, 100), s.loan_balance)
         IN  [s EXCEPT !.loan_balance = @ - portion,
                       !.loan_payment = @ + portion,
                       !.net_income = @ - portion]
    ELSE s

\* PayLumpAtStart without the cap at the net income
PayLumpAtStart_NoIncomeCap(c, s, month_idx_1_based) ==
    IF month_idx_1_based = c.loan_payback_start_month
       /\ ~s.lumpsum_already_paid /\ c.loan_lump_sum > 0
    THEN LET lumpsum_pay == Min2(c.loan_lump_sum, s.loan_balance)
         IN  [s EXCEPT !.loan_balance = @ - lumpsum_pay,
                       !.loan_payment = @ + lumpsum_pay,
                       !.net_income = @ - lumpsum_pay,
                       !.lump = @ + lumpsum_pay,
                       !.lumpsum_already_paid =
                           IF lumpsum_pay = c.loan_lump_sum THEN TRUE ELSE @]
    ELSE s

\* the lump part of "Lump + Timeline", paid in the payback start period
PayLumpAtStart(c, s, month_idx_1_based) ==
    IF month_idx_1_based = c.loan_payback_start_month
       /\ ~s.lumpsum_already_paid /\ c.loan_lump_sum > 0
    THEN LET lumpsum_pay ==
                 Min3(c.loan_lump_sum, s.loan_balance, Max2(0, s.net_income))
         IN  [s EXCEPT !.loan_balance = @ - lumpsum_pay,
                       !.loan_payment = @ + lumpsum_pay,
                       !.net_income = @ - lumpsum_pay,
                       !.lump = @ + lumpsum_pay,
                       !.lumpsum_already_paid =
                           IF lumpsum_pay = c.loan_lump_sum THEN TRUE ELSE @]
    ELSE s

\* PayTimeline spreading the balance over the periods after this one only
PayTimeline_ExcludesEndPeriod(c, s, month_idx_1_based) ==
    LET months_left == Max2(0, LoanPaybackEndMonthIndex(c) - month_idx_1_based)
    IN  IF months_left > 0
        THEN LET pay_amt ==
                     Min3(Div(s.loan_balance, months_left), s.loan_balance,
                          Max2(0, s.net_income))
             IN  [s EXCEPT !.loan_balance = @ - pay_amt,
                           !.loan_payment = @ + pay_amt,
                           !.net_income = @ - pay_amt]
        ELSE s

\* the timeline part of "Lump + Timeline"
PayTimeline(c, s, month_idx_1_based) ==
    LET months_left == Max2(0, LoanPaybackEndMonthIndex(c) - month_idx_1_based + 1)
    IN  IF months_left > 0
        THEN LET pay_amt ==
                     Min3(Div(s.loan_balance, months_left), s.loan_balance,
                          Max2(0, s.net_income))
             IN  [s EXCEPT !.loan_balance = @ - pay_amt,
                           !.loan_payment = @ + pay_amt,
                           !.net_income = @ - pay_amt]
        ELSE s

\* Payback without the guard on loan_payback_start_month
Payback_IgnoresStartMonth(c, s, month_idx_1_based) ==
    IF c.enable_initial_loan /\ s.loan_balance > 0
    THEN IF c.loan_payback_strategy = "fixed" /\ c.loan_fixed_amount > 0
         THEN PayFixed(c, s)
         ELSE IF c.loan_payback_strategy = "Percentage of Profit"
                 /\ c.loan_percent_of_profit > 0
         THEN PayPercentage(c, s)
         ELSE IF c.loan_payback_strategy = "Percentage of Profit + Lump"
         THEN PayPercentageAfterLump(c, PayLumpFromFunding(c, s))
         ELSE IF c.loan_payback_strategy = "Lump + Timeline"
                 /\ month_idx_1_based <= LoanPaybackEndMonthIndex(c)
         THEN PayTimeline(c, PayLumpAtStart(c, s, month_idx_1_based),
                          month_idx_1_based)
         ELSE s
    ELSE s

\* the payback section: guards and the strategy dispatch
Payback(c, s, month_idx_1_based) ==
    IF c.enable_initial_loan /\ s.loan_balance > 0
       /\ month_idx_1_based >= c.loan_payback_start_month
    THEN IF c.loan_payback_strategy = "fixed" /\ c.loan_fixed_amount > 0
         THEN PayFixed(c, s)
         ELSE IF c.loan_payback_strategy = "Percentage of Profit"
                 /\ c.loan_percent_of_profit > 0
         THEN PayPercentage(c, s)
         ELSE IF c.loan_payback_strategy = "Percentage of Profit + Lump"
         THEN PayPercentageAfterLump(c, PayLumpFromFunding(c, s))
         ELSE IF c.loan_payback_strategy = "Lump + Timeline"
                 /\ month_idx_1_based <= LoanPaybackEndMonthIndex(c)
         THEN PayTimeline(c, PayLumpAtStart(c, s, month_idx_1_based),
                          month_idx_1_based)
         ELSE s
    ELSE s

\* CashAfter without the floor at 0
CashAfter_NoFloor(current_cash, net_income, fin_flow, loan_inflow) ==
    current_cash + (net_income + fin_flow + loan_inflow)

\* current_cash after the period, floored at 0
CashAfter(current_cash, net_income, fin_flow, loan_inflow) ==
    LET cash == current_cash + (net_income + fin_flow + loan_inflow)
    IN  IF cash < 0 THEN 0 ELSE cash

\* loan_balance at entry
InitialLoanBalance(c) ==
    IF c.enable_initial_loan /\ c.initial_loan_amount > 0
    THEN c.initial_loan_amount
    ELSE 0

\* HeadcountAtPeriod keeping a headcount that an earlier call left behind
HeadcountAtPeriod_KeepsStale(c, idx, headcount) ==
    IF idx = 0 /\ DOMAIN headcount = {}
    THEN [role \in DOMAIN c.variable_staff_info |->
             c.variable_staff_info[role].headcount]
    ELSE headcount

\* current_variable_staff_headcount as the period reads it: bound in the
\* first iteration (idx == 0) from variable_staff_info
HeadcountAtPeriod(c, idx, headcount) ==
    IF idx = 0
    THEN [role \in DOMAIN c.variable_staff_info |->
             c.variable_staff_info[role].headcount]
    ELSE headcount

----------------------------------------------------------------------------
\* State

VARIABLES
    cfg,                    \* the arguments of the calls (the same for each call)
    pc,                     \* "idle": no call running; "loop": inside the for loop
    dt_list,                \* the periods of the running call
    idx,                    \* 0-based index of the next period
    current_clients,
    current_cash,
    loan_balance,
    lumpsum_already_paid,
    current_variable_staff_headcount,
    results,                \* the ledger rows appended so far
    aux,                    \* per row: values of the loop that the ledger does not keep
    returned,               \* the ledgers returned by the finished calls
    suspended               \* the locals of a second invocation that is not running now

vars ==
    << cfg, pc, dt_list, idx, current_clients, current_cash, loan_balance,
       lumpsum_already_paid, current_variable_staff_headcount, results, aux,
       returned, suspended >>

\* the locals of an invocation that has not been entered
IdleFrame ==
    [ pc |-> "idle", dt_list |-> << >>, idx |-> 0, current_clients |-> 0,
      current_cash |-> 0, loan_balance |-> 0, lumpsum_already_paid |-> FALSE,
      current_variable_staff_headcount |-> << >>, results |-> << >>,
      aux |-> << >> ]

Init ==
    /\ cfg \in Configs
    /\ pc = "idle"
    /\ dt_list = << >>
    /\ idx = 0
    /\ current_clients = 0
    /\ current_cash = 0
    /\ loan_balance = 0
    /\ lumpsum_already_paid = FALSE
    /\ current_variable_staff_headcount = << >>
    /\ results = << >>
    /\ aux = << >>
    /\ returned = << >>
    /\ suspended = IdleFrame

\* Entry of generate_projection up to the for loop: the calendar, the empty
\* results and the rolling values.
Call ==
    /\ pc = "idle"
    /\ Len(returned) < MaxCalls
    /\ pc' = "loop"
    /\ dt_list' = BuildDtList(cfg.start_date, cfg.end_date, NormFreq(cfg.frequency))
    /\ idx' = 0
    /\ results' = << >>
    /\ aux' = << >>
    /\ current_clients' = cfg.initial_clients
    /\ current_cash' = cfg.initial_cash
    /\ loan_balance' = InitialLoanBalance(cfg)
    /\ lumpsum_already_paid' = cfg.lump_sum_paid
    /\ UNCHANGED << cfg, current_variable_staff_headcount, returned, suspended >>

\* An exception raised inside the body of the for loop for the period k:
\*   KeyError: a plan of plans_info without "monthly_selling_price" or
\*             "monthly_cos" (read in every period);
\*   TypeError: fin_flow += amt for a funding round of the period whose
\*             amount is None (a round record with the field amount_none
\*             in place of amount).
PeriodRaises(c, k) ==
    \/ \E plan_n \in DOMAIN c.plans_info :
          ~({"monthly_selling_price", "monthly_cos"}
                \subseteq DOMAIN c.plans_info[plan_n])
    \/ \E j \in DOMAIN c.funding_rounds :
          /\ c.funding_rounds[j].month_trigger = k + 1
          /\ "amount_none" \in DOMAIN c.funding_rounds[j]

\* ExceptionResult handing back the rows computed before the exception
ExceptionResult_KeepsRows(rows) == rows

\* except Exception: the rows computed so far are dropped, pd.DataFrame()
ExceptionResult(rows) == << >>

\* ArgumentsAfterPeriod writing the headcounts of the period back into
\* variable_staff_info
ArgumentsAfterPeriod_WritesHeadcount(c, headcount) ==
    [c EXCEPT !.variable_staff_info =
        [role \in DOMAIN c.variable_staff_info |->
            [c.variable_staff_info[role] EXCEPT
                !.headcount = Get(headcount, role, @)]]]

\* the arguments after one iteration of the loop: every assignment of the
\* body is to a local name (the headcounts go to the dict built at idx == 0,
\* not to variable_staff_info), so the arguments are as they were received
ArgumentsAfterPeriod(c, headcount) == c

\* The body of the for loop for the period k (the idx of the loop), on the rolling values st
\* (dt_list, current_clients, current_cash, loan_balance, lumpsum_already_paid,
\* current_variable_staff_headcount): the row appended to results, the values
\* of the loop the ledger does not keep (seen), and the rolling values after.
PeriodBody(c, k, st) ==
    LET freq == NormFreq(c.frequency)
        this_date == st.dt_list[k + 1]
        cl == ClientStep(c, k, st.current_clients)
        rv == RevenueStep(c, cl)
        tu == TopUpStep(c, cl)
        total_revenue == TotalRevenue(rv.rev_sub, rv.rev_setup, tu.topup_revenue)
        total_cos == rv.cos_sub + rv.cos_setup + tu.topup_cos
        gross_profit == total_revenue - total_cos
        fs == FixedStaffStep(c, k)
        vs == VariableStaffStep(c, k, cl,
                  HeadcountAtPeriod(c, k, st.current_variable_staff_headcount))
        total_staff_cost == fs.staff_cost_fixed + vs.staff_cost_variable
        oh_cost == OverheadStep(c, k)
        hardware_cost ==
            (fs.total_fixed_staff + vs.total_variable_staff)
            * c.hardware_cost_per_employee * period_length_in_months(freq)
        marketing_spend == MarketingStep(c, total_revenue)
        rd_expense_monthly == Div(total_revenue * c.rd_revenue_pct, 100)
        opex0 == total_staff_cost + oh_cost + hardware_cost
                 + marketing_spend + rd_expense_monthly
        ebitda == gross_profit - opex0
        fu == FundingStep(c, k)
        opex == OpexWithCuts(opex0, fu.rd_cut)
        loan_inflow == 0
        interest_for_period == InterestForPeriod(c, st.loan_balance)
        s0 == [ loan_balance |-> st.loan_balance + interest_for_period,
                loan_payment |-> 0,
                net_income |-> ebitda - fu.rd_cut - interest_for_period,
                fin_flow |-> fu.fin_flow,
                lumpsum_already_paid |-> st.lumpsum_already_paid,
                lump |-> 0 ]
        s1 == Payback(c, s0, k + 1)
        cash == CashAfter(st.current_cash, s1.net_income, s1.fin_flow, loan_inflow)
        row == [ Time_Label |-> TimeLabel(this_date, freq),
                 ParsedDate |-> this_date,
                 Clients_Starting |-> cl.start_c,
                 Clients_New |-> cl.organic_new_c,
                 Clients_Churned |-> cl.churned_c,
                 Clients_Ending |-> cl.end_c,
                 Revenue_Subscription |-> rv.rev_sub,
                 Revenue_SetupFees |-> rv.rev_setup,
                 Revenue_TopUp |-> tu.topup_revenue,
                 Revenue_Total |-> total_revenue,
                 COS_Subscription |-> rv.cos_sub + rv.cos_setup,
                 COS_TopUp |-> tu.topup_cos,
                 COS_Total |-> total_cos,
                 Profit_GrossProfit |-> gross_profit,
                 Staff_Fixed |-> fs.total_fixed_staff,
                 Staff_Variable |-> vs.total_variable_staff,
                 Cost_StaffFixed |-> fs.staff_cost_fixed,
                 Cost_StaffVariable |-> vs.staff_cost_variable,
                 Cost_Staff |-> total_staff_cost,
                 Cost_Overheads |-> oh_cost,
                 Cost_Hardware |-> hardware_cost,
                 Cost_Marketing |-> marketing_spend,
                 Cost_RDExpense |-> rd_expense_monthly,
                 Cost_OperatingExpenses |-> opex,
                 Profit_EBITDA |-> ebitda,
                 Profit_NetIncome |-> s1.net_income,
                 CashFlow_FundingInflow |-> s1.fin_flow,
                 CashFlow_LoanInflow |-> loan_inflow,
                 CashFlow_LoanPayment |-> s1.loan_payment,
                 CashFlow_LoanBalance |-> s1.loan_balance,
                 CashFlow_EndingCash |-> cash,
                 Staff_OnboardingHrsUsed |-> vs.total_onboard_hrs,
                 Staff_MaintenanceHrsUsed |-> vs.total_technical_hrs ]
        seen == [ this_growth_rate |-> cl.this_growth_rate,
                  years_elapsed |-> YearsElapsed(k),
                  required_staff |-> vs.required_staff,
                  role_cost |-> vs.role_cost,
                  stored_headcount |-> vs.headcount,
                  lump_paid_before |-> st.lumpsum_already_paid,
                  balance_before |-> st.loan_balance,
                  interest_for_period |-> interest_for_period,
                  net_income_before_payback |-> s0.net_income,
                  lump |-> s1.lump,
                  funding_recognized |-> fu.fin_flow,
                  rd_cut |-> fu.rd_cut,
                  cash_before |-> st.current_cash ]
    IN  [ row |-> row,
          seen |-> seen,
          current_clients |-> cl.end_c,
          current_cash |-> cash,
          loan_balance |-> s1.loan_balance,
          lumpsum_already_paid |-> s1.lumpsum_already_paid,
          current_variable_staff_headcount |-> vs.headcount ]

\* One iteration of the for loop: the whole body, ending with the row
\* appended; or, when the body raises, the except clause and its return.
LoopBody ==
    /\ pc = "loop"
    /\ idx < Len(dt_list)
    /\ IF PeriodRaises(cfg, idx)
       THEN /\ pc' = "idle"
            /\ returned' = Append(returned, ExceptionResult(results))
            /\ UNCHANGED << cfg, dt_list, idx, current_clients, current_cash,
                            loan_balance, lumpsum_already_paid,
                            current_variable_staff_headcount, results, aux,
                            suspended >>
       ELSE /\ \E r \in { PeriodBody(cfg, idx,
                              [ dt_list |-> dt_list,
                                current_clients |-> current_clients,
                                current_cash |-> current_cash,
                                loan_balance |-> loan_balance,
                                lumpsum_already_paid |-> lumpsum_already_paid,
                                current_variable_staff_headcount |->
                                    current_variable_staff_headcount ]) } :
                   /\ results' = Append(results, r.row)
                   /\ aux' = Append(aux, r.seen)
                   /\ current_clients' = r.current_clients
                   /\ current_cash' = r.current_cash
                   /\ loan_balance' = r.loan_balance
                   /\ lumpsum_already_paid' = r.lumpsum_already_paid
                   /\ current_variable_staff_headcount' =
                          r.current_variable_staff_headcount
                   /\ cfg' = ArgumentsAfterPeriod(
                                 cfg, r.current_variable_staff_headcount)
            /\ idx' = idx + 1
            /\ UNCHANGED << pc, dt_list, returned, suspended >>

\* return pd.DataFrame(results) once the periods are exhausted
Return ==
    /\ pc = "loop"
    /\ idx = Len(dt_list)
    /\ pc' = "idle"
    /\ returned' = Append(returned, results)
    /\ UNCHANGED << cfg, dt_list, idx, current_clients, current_cash, loan_balance,
                    lumpsum_already_paid, current_variable_staff_headcount,
                    results, aux, suspended >>

Next == Call \/ LoopBody \/ Return

Spec == Init /\ [][Next]_vars

\* The calls on the long projections, the growth curves, the calendars and
\* the raising arguments.
InitEdge ==
    /\ cfg \in EdgeConfigs
    /\ pc = "idle"
    /\ dt_list = << >>
    /\ idx = 0
    /\ current_clients = 0
    /\ current_cash = 0
    /\ loan_balance = 0
    /\ lumpsum_already_paid = FALSE
    /\ current_variable_staff_headcount = << >>
    /\ results = << >>
    /\ aux = << >>
    /\ returned = << >>
    /\ suspended = IdleFrame

SpecEdge == InitEdge /\ [][Next]_vars

\* Two invocations on the same argument objects, interleaved: the running
\* invocation is set aside with its locals at any point between two
\* iterations and the other one goes on from where it was set aside.
Switch ==
    /\ suspended' =
           [ pc |-> pc, dt_list |-> dt_list, idx |-> idx,
             current_clients |-> current_clients,
             current_cash |-> current_cash,
             loan_balance |-> loan_balance,
             lumpsum_already_paid |-> lumpsum_already_paid,
             current_variable_staff_headcount |->
                 current_variable_staff_headcount,
             results |-> results, aux |-> aux ]
    /\ pc' = suspended.pc
    /\ dt_list' = suspended.dt_list
    /\ idx' = suspended.idx
    /\ current_clients' = suspended.current_clients
    /\ current_cash' = suspended.current_cash
    /\ loan_balance' = suspended.loan_balance
    /\ lumpsum_already_paid' = suspended.lumpsum_already_paid
    /\ current_variable_staff_headcount' =
           suspended.current_variable_staff_headcount
    /\ results' = suspended.results
    /\ aux' = suspended.aux
    /\ UNCHANGED << cfg, returned >>

\* argument objects shared by the interleaved invocations: headcounts that
\* move in the first periods, a loan with a lump, funding rounds
SharedConfigs ==
    { [BaseConfig EXCEPT
         !.frequency = f,
         !.end_date = AddMonths(StartDate, Horizon),
         !.initial_clients = n,
         !.funding_rounds = fr,
         !.rd_investment_pct = 10,
         !.enable_initial_loan = TRUE,
         !.initial_loan_amount = 60000,
         !.loan_interest_rate_annual = 12,
         !.loan_payback_strategy = strat,
         !.loan_percent_of_profit = 50,
         !.loan_lump_sum = 30000] :
        f \in {"Month", "Quarter"}, n \in {10, 40},
        fr \in { << >>, << Round(1, 20000), Round(2, 50000) >> },
        strat \in {"Percentage of Profit + Lump", "Lump + Timeline"} }

InitInterleaved ==
    /\ cfg \in SharedConfigs
    /\ pc = "idle"
    /\ dt_list = << >>
    /\ idx = 0
    /\ current_clients = 0
    /\ current_cash = 0
    /\ loan_balance = 0
    /\ lumpsum_already_paid = FALSE
    /\ current_variable_staff_headcount = << >>
    /\ results = << >>
    /\ aux = << >>
    /\ returned = << >>
    /\ suspended = IdleFrame

NextInterleaved == Call \/ LoopBody \/ Return \/ Switch

SpecInterleaved == InitInterleaved /\ [][NextInterleaved]_vars

----------------------------------------------------------------------------
\* Properties of the ledger

Rows == DOMAIN results

LumpStrategies == {"Percentage of Profit + Lump", "Lump + Timeline"}

\* the balance of period k after interest and before any payback
BalanceAfterInterest(k) == aux[k].balance_before + aux[k].interest_for_period

\* the part of the payment of period k that is drawn from the funding inflow
LumpFromFunding(k) ==
    IF cfg.loan_payback_strategy = "Percentage of Profit + Lump"
    THEN aux[k].lump
    ELSE 0

RECURSIVE AmountsTriggeredAt(_, _)
\* sum of the amounts of the configured rounds whose month_trigger is p
AmountsTriggeredAt(rounds, p) ==
    IF rounds = << >> THEN 0
    ELSE (IF Head(rounds).month_trigger = p THEN Head(rounds).amount ELSE 0)
         + AmountsTriggeredAt(Tail(rounds), p)

RECURSIVE CutsTriggeredAt(_, _, _)
\* sum of amount * rd_investment_pct / 100 over the rounds whose month_trigger is p
CutsTriggeredAt(rounds, pct, p) ==
    IF rounds = << >> THEN 0
    ELSE (IF Head(rounds).month_trigger = p
          THEN (Head(rounds).amount * pct) \div 100 ELSE 0)
         + CutsTriggeredAt(Tail(rounds), pct, p)

RECURSIVE AmountsTriggeredWithin(_, _)
\* sum of the amounts of the rounds whose month_trigger lies in 1..n
AmountsTriggeredWithin(rounds, n) ==
    IF rounds = << >> THEN 0
    ELSE (IF Head(rounds).month_trigger \in 1..n THEN Head(rounds).amount ELSE 0)
         + AmountsTriggeredWithin(Tail(rounds), n)

\* C1: in every ledger row, for every payback strategy, the loan balance is
\* not negative, and the payment of the period does not exceed the balance
\* outstanding after the interest of the period.
C1_LoanBalanceNonNegative ==
    \A k \in Rows :
        /\ results[k].CashFlow_LoanBalance >= 0
        /\ results[k].CashFlow_LoanPayment <= BalanceAfterInterest(k)

\* C1 witness: a period whose payment is capped by the balance (it pays the
\* whole balance after interest, and the balance ends at 0).
C1_Witness ==
    \E k \in Rows :
        /\ aux[k].interest_for_period > 0
        /\ results[k].CashFlow_LoanPayment = BalanceAfterInterest(k)
        /\ results[k].CashFlow_LoanBalance = 0

\* C2: in every period the recorded balance is the balance at the start of
\* the period plus the interest of the period minus the recorded payment, and
\* the payment is at most the start balance plus the interest.
C2_LoanConservation ==
    \A k \in Rows :
        /\ aux[k].balance_before =
               (IF k = 1 THEN InitialLoanBalance(cfg)
                ELSE results[k - 1].CashFlow_LoanBalance)
        /\ results[k].CashFlow_LoanBalance =
               aux[k].balance_before + aux[k].interest_for_period
               - results[k].CashFlow_LoanPayment
        /\ results[k].CashFlow_LoanPayment
               <= aux[k].balance_before + aux[k].interest_for_period

\* C2 witness: a period with interest, a lump portion and a further payment,
\* which leaves part of the balance outstanding.
C2_Witness ==
    \E k \in Rows :
        /\ k > 1
        /\ aux[k].interest_for_period > 0
        /\ aux[k].lump > 0
        /\ results[k].CashFlow_LoanPayment > aux[k].lump
        /\ results[k].CashFlow_LoanBalance > 0

\* C3: the ending cash of every row is the ending cash of the row before (the
\* initial cash for the first row) plus net income, funding inflow and loan
\* inflow of the row, floored at 0; so it is never negative.
C3_EndingCashFloored ==
    \A k \in Rows :
        LET before == IF k = 1 THEN cfg.initial_cash
                      ELSE results[k - 1].CashFlow_EndingCash
            raw == before + results[k].Profit_NetIncome
                   + results[k].CashFlow_FundingInflow
                   + results[k].CashFlow_LoanInflow
        IN  /\ results[k].CashFlow_EndingCash = (IF raw < 0 THEN 0 ELSE raw)
            /\ results[k].CashFlow_EndingCash >= 0

\* C3 witness: a loss larger than the cash at hand in a row after the first
\* (the floor acts), after a row that ended with cash.
C3_Witness ==
    \E k \in Rows :
        /\ k > 1
        /\ results[k - 1].CashFlow_EndingCash > 0
        /\ results[k - 1].CashFlow_EndingCash + results[k].Profit_NetIncome
           + results[k].CashFlow_FundingInflow < 0
        /\ results[k].CashFlow_EndingCash = 0

\* C4: in every period the ending clients are starting plus new minus churned
\* clients, floored at 0; so they are never negative.
C4_ClientsEndingFloored ==
    \A k \in Rows :
        LET raw == results[k].Clients_Starting + results[k].Clients_New
                   - results[k].Clients_Churned
        IN  /\ results[k].Clients_Ending = (IF raw < 0 THEN 0 ELSE raw)
            /\ results[k].Clients_Ending >= 0

\* C4 witness: a period whose churn is above 100 percent of a positive cohort.
C4_Witness ==
    \E k \in Rows :
        /\ results[k].Clients_Starting > 0
        /\ results[k].Clients_Churned
           > results[k].Clients_Starting + results[k].Clients_New
        /\ results[k].Clients_Ending = 0

\* C5: for both lump strategies the one-time lump payment fires in at most one
\* period of a run, and in no period when the lump_sum_paid input is true.
C5_LumpPaidAtMostOnce ==
    cfg.loan_payback_strategy \in LumpStrategies =>
        /\ \A j, k \in Rows : (j < k /\ aux[j].lump > 0) => aux[k].lump = 0
        /\ cfg.lump_sum_paid => \A k \in Rows : aux[k].lump = 0

\* C6: in every period, for every strategy, the payment without the lump
\* portion drawn from the funding inflow is at most the net income at hand
\* before the payback (after R&D cut and interest, floored at 0); so a net
\* income that is not negative before the payback is not negative after it.
C6_PaymentWithinNetIncome ==
    \A k \in Rows :
        /\ results[k].CashFlow_LoanPayment - LumpFromFunding(k)
               <= Max2(0, aux[k].net_income_before_payback)
        /\ aux[k].net_income_before_payback >= 0
               => results[k].Profit_NetIncome >= 0

\* C6 witness: a period whose payment takes the whole positive net income
\* while part of the balance stays outstanding.
C6_Witness ==
    \E k \in Rows :
        /\ aux[k].net_income_before_payback > 0
        /\ results[k].CashFlow_LoanPayment = aux[k].net_income_before_payback
        /\ results[k].Profit_NetIncome = 0
        /\ results[k].CashFlow_LoanBalance > 0

C7_Case(k) ==
    /\ cfg.loan_payback_strategy = "Lump + Timeline"
    /\ k = cfg.loan_payback_start_month
    /\ cfg.loan_lump_sum > BalanceAfterInterest(k)

\* C7 as stated: under Lump + Timeline with loan_lump_sum above the balance
\* outstanding at the payback start period, the lump payment of that period
\* is the outstanding balance, the balance is 0 after it, and every later
\* period pays nothing.
C7_LumpClearsBalance ==
    \A k \in Rows :
        C7_Case(k) =>
            /\ aux[k].lump = BalanceAfterInterest(k)
            /\ results[k].CashFlow_LoanBalance = 0
            /\ \A j \in Rows : j > k => results[j].CashFlow_LoanPayment = 0

\* C7 amended: under Lump + Timeline with lump_sum_paid false, the payback
\* start period not after the payback end period and loan_lump_sum above the
\* balance B outstanding (after interest) at the payback start period, the
\* lump payment of that period is min(B, max(0, net income after R&D cut and
\* interest)); when that net income is at least B, the balance is 0 after the
\* period and every later period pays nothing.
C7_LumpCappedByNetIncome ==
    \A k \in Rows :
        (C7_Case(k) /\ ~cfg.lump_sum_paid /\ k <= LoanPaybackEndMonthIndex(cfg)) =>
            /\ aux[k].lump =
                   Min2(BalanceAfterInterest(k),
                        Max2(0, aux[k].net_income_before_payback))
            /\ aux[k].net_income_before_payback >= BalanceAfterInterest(k) =>
                   /\ results[k].CashFlow_LoanBalance = 0
                   /\ \A j \in Rows : j > k => results[j].CashFlow_LoanPayment = 0

\* C7 witness: the lump pays a positive balance off in the payback start
\* period and a later period is in the ledger.
C7_Witness ==
    \E k \in Rows :
        /\ C7_Case(k) /\ ~cfg.lump_sum_paid /\ k <= LoanPaybackEndMonthIndex(cfg)
        /\ aux[k].interest_for_period > 0
        /\ aux[k].net_income_before_payback >= BalanceAfterInterest(k)
        /\ aux[k].lump = BalanceAfterInterest(k)
        /\ k + 1 \in Rows

\* C8: each funding round is recognized exactly once: in every period the
\* funding recognized and the R&D cut charged to operating expenses and net
\* income are those of the rounds whose month_trigger is the period's 1-based
\* index, and over a whole run the funding recognized is the sum of the
\* rounds whose month_trigger lies in 1..number_of_periods.
C8_FundingRecognizedOnce ==
    /\ \A k \in Rows :
        /\ aux[k].funding_recognized = AmountsTriggeredAt(cfg.funding_rounds, k)
        /\ aux[k].rd_cut =
               CutsTriggeredAt(cfg.funding_rounds, cfg.rd_investment_pct, k)
        /\ results[k].Cost_OperatingExpenses
               - (results[k].Cost_Staff + results[k].Cost_Overheads
                  + results[k].Cost_Hardware + results[k].Cost_Marketing
                  + results[k].Cost_RDExpense)
           = CutsTriggeredAt(cfg.funding_rounds, cfg.rd_investment_pct, k)
        /\ results[k].Profit_EBITDA - aux[k].interest_for_period
               - aux[k].net_income_before_payback
           = CutsTriggeredAt(cfg.funding_rounds, cfg.rd_investment_pct, k)
    /\ (pc = "loop" /\ idx = Len(dt_list)) =>
           SumSeq([k \in Rows |-> aux[k].funding_recognized])
           = AmountsTriggeredWithin(cfg.funding_rounds, Len(dt_list))

\* C8 witness: a finished run with a round before the first period, a round
\* after the last period and a round inside, with an R&D cut.
C8_Witness ==
    /\ pc = "loop" /\ idx = Len(dt_list)
    /\ cfg.rd_investment_pct > 0
    /\ \E a, b, d \in DOMAIN cfg.funding_rounds :
        /\ cfg.funding_rounds[a].month_trigger < 1
        /\ cfg.funding_rounds[b].month_trigger > Len(dt_list)
        /\ cfg.funding_rounds[d].month_trigger \in Rows
        /\ aux[cfg.funding_rounds[d].month_trigger].rd_cut > 0

\* C9 as stated: in every row the recorded funding inflow is the sum of the
\* amounts of the rounds whose month_trigger is the row's index.
C9_FundingInflowIsSumOfRounds ==
    \A k \in Rows :
        results[k].CashFlow_FundingInflow
            = AmountsTriggeredAt(cfg.funding_rounds, k)

\* C9 amended: in every row the recorded funding inflow is the sum of the
\* amounts of the rounds whose month_trigger is the row's index (two rounds
\* with the same trigger both count in full), less the lump portion that
\* Percentage of Profit + Lump pays out of that inflow in the period.
C9_FundingInflowLessLump ==
    \A k \in Rows :
        results[k].CashFlow_FundingInflow
            = AmountsTriggeredAt(cfg.funding_rounds, k) - LumpFromFunding(k)

\* C9 witness: two rounds with the same trigger fire in a period in which a
\* lump portion is paid out of them.
C9_Witness ==
    \E k \in Rows :
        /\ \E a, b \in DOMAIN cfg.funding_rounds :
              /\ a # b
              /\ cfg.funding_rounds[a].month_trigger = k
              /\ cfg.funding_rounds[b].month_trigger = k
        /\ LumpFromFunding(k) > 0
        /\ results[k].CashFlow_FundingInflow > 0

\* C10: calls with the same configuration return the same ledger, row by row
\* and field by field: nothing a call leaves behind reaches the next call.
C10_Deterministic ==
    \A i, j \in DOMAIN returned : returned[i] = returned[j]

\* C10 witness: two calls have returned ledgers of several rows, in a run
\* that paid a lump and changed the variable headcount.
C10_Witness ==
    /\ Len(returned) >= 2
    /\ Len(returned[1]) >= 2
    /\ \E k \in DOMAIN aux : aux[k].lump > 0
    /\ \E r \in DOMAIN current_variable_staff_headcount :
          current_variable_staff_headcount[r] # cfg.variable_staff_info[r].headcount

\* C11: a call in which some period raises returns an empty ledger; every
\* returned ledger is empty or has one row for each period of the calendar,
\* in order, and is never a proper prefix of the periods.
C11_EmptyOrComplete ==
    \A i \in DOMAIN returned :
        IF \E k \in 0 .. (Len(dt_list) - 1) : PeriodRaises(cfg, k)
        THEN returned[i] = << >>
        ELSE /\ Len(returned[i]) = Len(dt_list)
             /\ \A k \in DOMAIN returned[i] :
                    returned[i][k].ParsedDate = dt_list[k]

\* C11 witness: a call raised in a period after the first, with rows already
\* computed, and returned the empty ledger.
C11_Witness ==
    /\ pc = "idle"
    /\ Len(results) >= 1
    /\ Len(results) < Len(dt_list)
    /\ PeriodRaises(cfg, Len(results))
    /\ returned # << >>
    /\ returned[Len(returned)] = << >>

\* the monthly salary of a variable role in the period of row k
SalaryNow(role, k) ==
    Compound(cfg.variable_staff_info[role].base_salary,
             cfg.variable_staff_info[role].annual_raise,
             aux[k].years_elapsed)

\* salary_now * period_length * required of a variable role in row k
PlainRoleCost(role, k) ==
    SalaryNow(role, k) * period_length_in_months(NormFreq(cfg.frequency))
    * aux[k].required_staff[role]

\* the headcount of a variable role before the period of row k
PreviousHeadcount(role, k) ==
    IF k = 1 THEN cfg.variable_staff_info[role].headcount
    ELSE aux[k - 1].required_staff[role]

\* C12: for every variable staff role and every two consecutive periods with
\* the same required headcount of the role, the cost of the role in the
\* second period is salary_now * period_length * required, without hire or
\* termination cost; the recorded variable staff cost is the sum of the
\* costs of the roles.
C12_NoHireCostWhenUnchanged ==
    \A k \in Rows :
        /\ results[k].Cost_StaffVariable
               = SumOver(aux[k].role_cost, DOMAIN cfg.variable_staff_info)
        /\ k + 1 \in Rows =>
               \A role \in DOMAIN cfg.variable_staff_info :
                   aux[k].required_staff[role] = aux[k + 1].required_staff[role]
                       => aux[k + 1].role_cost[role] = PlainRoleCost(role, k + 1)

\* C12 witness: in one run a role was hired for in one period (a hire cost
\* was charged) and stayed as required in the next, and a role was cut in one
\* period (a termination cost was charged) and stayed as required in the next.
C12_Witness ==
    \E j, k \in Rows, hired, cut \in DOMAIN cfg.variable_staff_info :
        /\ j + 1 \in Rows /\ k + 1 \in Rows
        /\ aux[j].required_staff[hired] > PreviousHeadcount(hired, j)
        /\ aux[j].role_cost[hired] > PlainRoleCost(hired, j)
        /\ aux[j + 1].required_staff[hired] = aux[j].required_staff[hired]
        /\ aux[j + 1].required_staff[hired] > 0
        /\ aux[k].required_staff[cut] < PreviousHeadcount(cut, k)
        /\ aux[k].role_cost[cut] > PlainRoleCost(cut, k)
        /\ aux[k + 1].required_staff[cut] = aux[k].required_staff[cut]

\* C13: in every row Revenue_Total is Revenue_Subscription +
\* Revenue_SetupFees + Revenue_TopUp.
C13_RevenueAdditive ==
    \A k \in Rows :
        results[k].Revenue_Total
            = results[k].Revenue_Subscription + results[k].Revenue_SetupFees
              + results[k].Revenue_TopUp

\* C13 witness: a row with subscription, setup and top-up revenue.
C13_Witness ==
    \E k \in Rows :
        /\ results[k].Revenue_Subscription > 0
        /\ results[k].Revenue_SetupFees > 0
        /\ results[k].Revenue_TopUp > 0

\* the growth rate used in the period of row k is v percent
RateIs(k, v) == aux[k].this_growth_rate.num = v * aux[k].this_growth_rate.den

\* every phase starts no later than it ends and no earlier than the phase
\* before it ends
PhasesInOrder ==
    /\ cfg.phase1_start_month <= cfg.phase1_end_month
    /\ cfg.phase1_end_month <= cfg.phase2_start_month
    /\ cfg.phase2_start_month <= cfg.phase2_end_month
    /\ cfg.phase2_end_month <= cfg.phase3_start_month
    /\ cfg.phase3_start_month <= cfg.phase3_end_month

\* C14 as stated: at the period equal to a phase's end_month the rate is the
\* phase's end_rate when the period is before the next phase's start, and the
\* next phase's start_rate when the period is the next phase's start.
C14_NextSegmentAtEndMonth ==
    \A i \in Rows :
        /\ (i = cfg.phase1_end_month /\ i < cfg.phase2_start_month)
               => RateIs(i, cfg.phase1_end_rate)
        /\ (i = cfg.phase1_end_month /\ i = cfg.phase2_start_month)
               => RateIs(i, cfg.phase2_start_rate)
        /\ (i = cfg.phase2_end_month /\ i < cfg.phase3_start_month)
               => RateIs(i, cfg.phase2_end_rate)
        /\ (i = cfg.phase2_end_month /\ i = cfg.phase3_start_month)
               => RateIs(i, cfg.phase3_start_rate)

\* C14 amended: for phases in order (each start_month at most its end_month
\* and at least the end_month of the phase before), at the period equal to
\* the end_month of phase 1 or 2 the rate is that phase's end_rate when the
\* period is before the next phase's start, and the next phase's start_rate
\* when the period is the next phase's start and the next phase ends later
\* than it starts; at the end_month of phase 3 the rate is the plateau rate.
C14_NextSegmentForOrderedPhases ==
    PhasesInOrder =>
        \A i \in Rows :
            /\ (i = cfg.phase1_end_month /\ i < cfg.phase2_start_month)
                   => RateIs(i, cfg.phase1_end_rate)
            /\ (i = cfg.phase1_end_month /\ i = cfg.phase2_start_month
                    /\ cfg.phase2_start_month < cfg.phase2_end_month)
                   => RateIs(i, cfg.phase2_start_rate)
            /\ (i = cfg.phase2_end_month /\ i < cfg.phase3_start_month)
                   => RateIs(i, cfg.phase2_end_rate)
            /\ (i = cfg.phase2_end_month /\ i = cfg.phase3_start_month
                    /\ cfg.phase3_start_month < cfg.phase3_end_month)
                   => RateIs(i, cfg.phase3_start_rate)
            /\ i = cfg.phase3_end_month => RateIs(i, cfg.plateau_rate)

\* C14 witness: a run along phases in order in which phase 1 ends where
\* phase 2 starts (the rate there is phase 2's start_rate, not phase 1's
\* end_rate) and phase 2 ends before phase 3 starts (the rate there is phase
\* 2's end_rate).
C14_Witness ==
    /\ PhasesInOrder
    /\ cfg.phase1_end_rate # cfg.phase2_start_rate
    /\ \E i, j \in Rows :
          /\ i = cfg.phase1_end_month /\ i = cfg.phase2_start_month
          /\ cfg.phase2_start_month < cfg.phase2_end_month
          /\ RateIs(i, cfg.phase2_start_rate)
          /\ ~RateIs(i - 1, cfg.phase1_end_rate)
          /\ j = cfg.phase2_end_month /\ j < cfg.phase3_start_month
          /\ RateIs(j, cfg.phase2_end_rate)

\* the months that bound the phases
PhaseMonths ==
    { cfg.phase1_start_month, cfg.phase1_end_month, cfg.phase2_start_month,
      cfg.phase2_end_month, cfg.phase3_start_month, cfg.phase3_end_month }

\* C15 as stated: in every period at or after phase 3's end_month the rate
\* is the plateau rate, whatever the phases.
C15_PlateauFromPhase3End ==
    \A i \in Rows : i >= cfg.phase3_end_month => RateIs(i, cfg.plateau_rate)

\* C15 amended: in every period at or after the start_month and the
\* end_month of every phase the rate is the plateau rate, for overlapping and
\* degenerate phases too; for phases in order these are the periods at or
\* after phase 3's end_month.
C15_PlateauAfterEveryPhase ==
    \A i \in Rows :
        /\ (\A m \in PhaseMonths : i >= m) => RateIs(i, cfg.plateau_rate)
        /\ (PhasesInOrder /\ i >= cfg.phase3_end_month)
               => RateIs(i, cfg.plateau_rate)

\* C15 witness: a run along phases out of order that reaches the plateau
\* after a period at or after phase 3's end_month that was not on it.
C15_Witness ==
    /\ ~PhasesInOrder
    /\ \E i \in Rows :
          /\ i > 1
          /\ i - 1 >= cfg.phase3_end_month
          /\ ~RateIs(i - 1, cfg.plateau_rate)
          /\ \A m \in PhaseMonths : i >= m
          /\ RateIs(i, cfg.plateau_rate)

\* C16 as stated: the calendar of a call has at least 2 periods, whatever
\* start_date and end_date.
C16_AtLeastTwoPeriods ==
    pc = "loop" => Len(dt_list) >= 2

\* the start_date moved on by one period
OnePeriodOn ==
    AddMonths(cfg.start_date, period_length_in_months(NormFreq(cfg.frequency)))

\* C16 amended: the calendar of a call has at least 1 period and starts at
\* start_date; it is start_date and start_date + 1 month when end_date is
\* before start_date, the single period start_date when end_date is at or
\* after start_date and before start_date plus one period (so for end_date
\* == start_date), and 2 or more periods otherwise.
C16_AtLeastOnePeriod ==
    pc = "loop" =>
        /\ Len(dt_list) >= 1
        /\ dt_list[1] = cfg.start_date
        /\ cfg.end_date < cfg.start_date
               => dt_list = << cfg.start_date, AddMonths(cfg.start_date, 1) >>
        /\ (cfg.start_date <= cfg.end_date /\ cfg.end_date < OnePeriodOn)
               => dt_list = << cfg.start_date >>
        /\ OnePeriodOn <= cfg.end_date => Len(dt_list) >= 2

\* C16 witness: a call with end_date == start_date returned a ledger of one
\* row.
C16_Witness ==
    /\ cfg.end_date = cfg.start_date
    /\ returned # << >>
    /\ Len(returned[1]) = 1
    /\ returned[1][1].ParsedDate = cfg.start_date

\* loan_payback_end_date is a date and "Lump + Timeline" reads it
PaybackEndRead ==
    /\ cfg.loan_payback_strategy = "Lump + Timeline"
    /\ Len(cfg.loan_payback_end_date) = 1

RECURSIVE MonthsReached(_, _, _)
\* the number of first days of a month after from_date and at most to_date
MonthsReached(from_date, to_date, n) ==
    IF AddMonths(from_date, n + 1) <= to_date
    THEN MonthsReached(from_date, to_date, n + 1)
    ELSE n

\* the first day of the month of d
FirstOfMonth(d) == DateOf(YearOf(d), MonthOf(d), 1)

\* C17 as stated: month_index_for_date is 0 for every target before the
\* start date, and otherwise floor(calendar month difference / m) + 1, with
\* m the months of a period.
C17_ZeroBeforeStart ==
    (pc = "loop" /\ PaybackEndRead) =>
        LET target == cfg.loan_payback_end_date[1]
            m == period_length_in_months(NormFreq(cfg.frequency))
        IN  LoanPaybackEndMonthIndex(cfg) =
                IF target < cfg.start_date THEN 0
                ELSE (MonthsReached(FirstOfMonth(cfg.start_date), target, 0)
                      \div m) + 1

\* C17 amended: month_index_for_date is 0 for every target in a calendar
\* month before the month of the start date, and otherwise floor(calendar
\* month difference / m) + 1 with m = 1, 3, 12 for month, quarter, year; a
\* target in the month of the start date gives 1, also when it is earlier
\* than the start date.  No loan payment is made in a period after that index.
C17_ZeroBeforeStartMonth ==
    (pc = "loop" /\ PaybackEndRead) =>
        LET target == cfg.loan_payback_end_date[1]
            m == period_length_in_months(NormFreq(cfg.frequency))
            expected ==
                IF target < FirstOfMonth(cfg.start_date) THEN 0
                ELSE (MonthsReached(FirstOfMonth(cfg.start_date), target, 0)
                      \div m) + 1
        IN  /\ LoanPaybackEndMonthIndex(cfg) = expected
            /\ \A k \in Rows :
                   k > expected => results[k].CashFlow_LoanPayment = 0

\* C17 witness: a loan_payback_end_date before the start date in the month of
\* the start date; the index is 1 and the first period pays.
C17_Witness ==
    /\ pc = "loop" /\ PaybackEndRead
    /\ cfg.loan_payback_end_date[1] < cfg.start_date
    /\ cfg.loan_payback_end_date[1] >= FirstOfMonth(cfg.start_date)
    /\ LoanPaybackEndMonthIndex(cfg) = 1
    /\ 2 \in Rows
    /\ results[1].CashFlow_LoanPayment > 0
    /\ results[2].CashFlow_LoanPayment = 0

\* every phase rate and the plateau rate is 0 or below
AllRatesNonPositive ==
    \A r \in { cfg.phase1_start_rate, cfg.phase1_end_rate,
                cfg.phase2_start_rate, cfg.phase2_end_rate,
                cfg.phase3_start_rate, cfg.phase3_end_rate,
                cfg.plateau_rate } : r <= 0

\* C18: when every phase rate and the plateau rate is 0 or below, Clients_New
\* is 0 in every period, each period starts with the clients the period
\* before ended with and ends with them less the churned clients (floored at
\* 0), and Clients_Ending never increases from one period to the next.
C18_NoGrowthOnlyChurn ==
    AllRatesNonPositive =>
        \A k \in Rows :
            /\ aux[k].this_growth_rate.num <= 0
            /\ results[k].Clients_New = 0
            /\ results[k].Clients_Starting =
                   (IF k = 1 THEN cfg.initial_clients
                    ELSE results[k - 1].Clients_Ending)
            /\ results[k].Clients_Ending =
                   Max2(0, results[k].Clients_Starting - results[k].Clients_Churned)
            /\ results[k].Clients_Ending <= results[k].Clients_Starting
            /\ k > 1 => results[k].Clients_Ending <= results[k - 1].Clients_Ending

\* C18 witness: a run with rates below 0 in which a period loses clients to
\* churn and a later period starts with clients and ends with no more.
C18_Witness ==
    /\ AllRatesNonPositive
    /\ \E j, k \in Rows :
          /\ j < k
          /\ aux[j].this_growth_rate.num < 0
          /\ results[j].Clients_Churned > 0
          /\ results[j].Clients_Ending < results[j].Clients_Starting
          /\ results[k].Clients_Starting > 0
          /\ aux[k].this_growth_rate.num < 0
          /\ results[k].Clients_Ending < results[j].Clients_Ending

\* Cost_StaffFixed and Cost_Overheads of a period compounded over n years
FixedStaffCostAfter(n) ==
    SumOver([role \in DOMAIN cfg.fixed_staff_info |->
                Compound(cfg.fixed_staff_info[role].base_salary,
                         cfg.fixed_staff_info[role].annual_raise, n)
                * period_length_in_months(NormFreq(cfg.frequency))
                * cfg.fixed_staff_info[role].headcount],
            DOMAIN cfg.fixed_staff_info)

OverheadsAfter(n) ==
    SumSeq([j \in DOMAIN cfg.overhead_items |->
               Compound(cfg.overhead_items[j].monthly_cost,
                        cfg.overhead_items[j].annual_increase, n)
               * period_length_in_months(NormFreq(cfg.frequency))])

\* C19: in the 1-based period p the raises and the inflation are compounded
\* floor((p - 1) / periods_per_year) times, with periods_per_year = 12, 4, 1
\* for month, quarter, year.
C19_CompoundsPerYearOfPeriods ==
    \A p \in Rows :
        LET n == (p - 1) \div periods_per_year(NormFreq(cfg.frequency))
        IN  /\ aux[p].years_elapsed = n
            /\ results[p].Cost_StaffFixed = FixedStaffCostAfter(n)
            /\ results[p].Cost_Overheads = OverheadsAfter(n)

----------------------------------------------------------------------------
\* Staffing, EBITDA and the loan, row by row

\* the variable roles of the configuration
VariableRoles == DOMAIN cfg.variable_staff_info

\* the roles whose headcount follows a workload: a capacity above 0 and
\* "Onboarding" or "Technical" in the name
FollowsWorkload(role) ==
    /\ cfg.variable_staff_info[role].capacity > 0
    /\ HasOnboarding(role) \/ HasTechnical(role)

\* the workload of a role in row k, in hundredths of an hour
WorkloadHrs(role, k) ==
    IF HasOnboarding(role) THEN results[k].Staff_OnboardingHrsUsed
    ELSE results[k].Staff_MaintenanceHrsUsed

\* n is the ceiling of the workload of the role in row k over its capacity
IsCeilOfWorkload(n, role, k) ==
    LET capacity == cfg.variable_staff_info[role].capacity
    IN  /\ n * 100 * capacity >= WorkloadHrs(role, k)
        /\ (n - 1) * 100 * capacity < WorkloadHrs(role, k)

\* C21 as stated: for every variable role with capacity above 0 and every
\* period the required headcount is at least 1, also when the workload hours
\* are 0, and for a role with capacity 0 it is exactly 1.
C21_RequiredAtLeastOne ==
    \A k \in Rows : \A role \in VariableRoles :
        /\ cfg.variable_staff_info[role].capacity > 0
               => aux[k].required_staff[role] >= 1
        /\ cfg.variable_staff_info[role].capacity = 0
               => aux[k].required_staff[role] = 1

\* C21: for every variable role and every period, a role with capacity above
\* 0 whose name holds "Onboarding" (or else "Technical") requires the ceiling
\* of the onboarding (technical) workload hours over the capacity, which is 0
\* when the workload is 0 and at least 1 when it is positive; every other
\* role (capacity 0, or neither word in the name) requires exactly 1.
C21_RequiredFromWorkload ==
    \A k \in Rows : \A role \in VariableRoles :
        IF FollowsWorkload(role)
        THEN /\ IsCeilOfWorkload(aux[k].required_staff[role], role, k)
             /\ WorkloadHrs(role, k) = 0 => aux[k].required_staff[role] = 0
             /\ WorkloadHrs(role, k) > 0 => aux[k].required_staff[role] >= 1
        ELSE aux[k].required_staff[role] = 1

\* C21 witness: in one row a workload role with no hours requires 0, another
\* workload role with hours requires 2 or more, a role with capacity 0
\* requires 1 and a role with a capacity and neither word requires 1.
C21_Witness ==
    \E k \in Rows : \E idle, busy, none, other \in VariableRoles :
        /\ FollowsWorkload(idle) /\ WorkloadHrs(idle, k) = 0
        /\ aux[k].required_staff[idle] = 0
        /\ FollowsWorkload(busy) /\ WorkloadHrs(busy, k) > 0
        /\ aux[k].required_staff[busy] >= 2
        /\ cfg.variable_staff_info[none].capacity = 0
        /\ aux[k].required_staff[none] = 1
        /\ cfg.variable_staff_info[other].capacity > 0
        /\ ~FollowsWorkload(other)
        /\ aux[k].required_staff[other] = 1

\* C22 as stated: in every row, also one in which a funding round with an
\* R&D investment percentage above 0 fires, Profit_EBITDA is
\* Profit_GrossProfit less Cost_OperatingExpenses, whatever the interest and
\* the payment of the loan in the period.
C22_EbitdaIsGrossProfitLessOpex ==
    \A k \in Rows :
        results[k].Profit_EBITDA
            = results[k].Profit_GrossProfit - results[k].Cost_OperatingExpenses

\* the part of the payment of row k that is taken from the net income
PaidFromIncome(k) == results[k].CashFlow_LoanPayment - LumpFromFunding(k)

\* C23: in every period with a positive loan balance the interest
\* balance * (annual rate / 100 / 12) * period length is added to the balance
\* and subtracted from the net income before any payback of the period, so
\* the caps of the payback are the balance and the net income after interest;
\* interest accrues in the periods before loan_payback_start_month as well.
C23_InterestBeforePayback ==
    \A k \in Rows :
        /\ aux[k].interest_for_period =
               IF aux[k].balance_before > 0
               THEN (aux[k].balance_before * cfg.loan_interest_rate_annual
                     * period_length_in_months(NormFreq(cfg.frequency))) \div 1200
               ELSE 0
        /\ aux[k].net_income_before_payback =
               results[k].Profit_EBITDA - aux[k].rd_cut
               - aux[k].interest_for_period
        /\ results[k].CashFlow_LoanBalance =
               BalanceAfterInterest(k) - results[k].CashFlow_LoanPayment
        /\ results[k].Profit_NetIncome =
               aux[k].net_income_before_payback - PaidFromIncome(k)
        /\ results[k].CashFlow_LoanPayment <= BalanceAfterInterest(k)
        /\ PaidFromIncome(k) <= Max2(0, aux[k].net_income_before_payback)
        /\ k < cfg.loan_payback_start_month =>
               results[k].CashFlow_LoanBalance = BalanceAfterInterest(k)

\* C23 witness: interest grew the balance in a period before the payback
\* start, a later payment cleared the whole balance with its interest, and
\* in some period the payment out of income took all the net income left
\* after the interest.
C23_Witness ==
    /\ \E k \in Rows :
        /\ k < cfg.loan_payback_start_month
        /\ aux[k].interest_for_period > 0
        /\ results[k].CashFlow_LoanBalance > aux[k].balance_before
    /\ \E j \in Rows :
        /\ aux[j].interest_for_period > 0
        /\ results[j].CashFlow_LoanPayment = BalanceAfterInterest(j)
    /\ \E i \in Rows :
        /\ aux[i].interest_for_period > 0
        /\ PaidFromIncome(i) > 0
        /\ PaidFromIncome(i) = aux[i].net_income_before_payback

\* the payment due in row k of a timeline that ends in period last_period:
\* the even share of the balance left after the lump, capped by that balance
\* and by the net income left after the lump, floored at 0
TimelineShare(k, last_period) ==
    LET balance == BalanceAfterInterest(k) - aux[k].lump
        income == aux[k].net_income_before_payback - aux[k].lump
    IN  Min3(balance \div (last_period - k + 1), balance, Max2(0, income))

\* rows in the payback window pay the timeline share after the lump, and no
\* row after the end period pays
TimelinePaysInWindow(last_period) ==
    \A k \in Rows :
        /\ (cfg.loan_payback_start_month <= k /\ k <= last_period) =>
               results[k].CashFlow_LoanPayment - aux[k].lump
                   = TimelineShare(k, last_period)
        /\ k > last_period => results[k].CashFlow_LoanPayment = 0

\* the net income of row k after interest covers the balance after interest
IncomeCoversBalance(k) ==
    aux[k].net_income_before_payback >= BalanceAfterInterest(k)

\* C24 as stated: under Lump + Timeline with a configured end period E, each
\* period p with loan_payback_start_month <= p <= E pays min(balance /
\* (E - p + 1), balance, max(0, net income)) after any lump, no payment is
\* made after E, and if the net income of period E covers the balance, the
\* balance is 0 after period E.
C24_TimelineClearsAtEnd ==
    PaybackEndRead =>
        LET E == LoanPaybackEndMonthIndex(cfg)
        IN  /\ TimelinePaysInWindow(E)
            /\ (E \in Rows /\ IncomeCoversBalance(E)) =>
                   results[E].CashFlow_LoanBalance = 0

\* C24: under Lump + Timeline with a configured end period E, each period p
\* with loan_payback_start_month <= p <= E pays min(balance / (E - p + 1),
\* balance, max(0, net income)) after any lump, no payment is made after E,
\* and if loan_payback_start_month <= E and the net income of period E
\* covers the balance, the balance is 0 after period E.
C24_TimelineClearsAtEndOfWindow ==
    PaybackEndRead =>
        LET E == LoanPaybackEndMonthIndex(cfg)
        IN  /\ TimelinePaysInWindow(E)
            /\ (E \in Rows /\ cfg.loan_payback_start_month <= E
                /\ IncomeCoversBalance(E)) =>
                   results[E].CashFlow_LoanBalance = 0

\* C24 witness: a lump was paid in the start period together with an even
\* share of the rest, the end period came later and cleared a positive
\* balance, and the period after it paid nothing.
C24_Witness ==
    /\ PaybackEndRead
    /\ LET E == LoanPaybackEndMonthIndex(cfg)
           start == cfg.loan_payback_start_month
       IN  /\ start \in Rows /\ E \in Rows /\ E + 1 \in Rows /\ start < E
           /\ aux[start].lump > 0
           /\ results[start].CashFlow_LoanPayment - aux[start].lump
                  = (BalanceAfterInterest(start) - aux[start].lump)
                    \div (E - start + 1)
           /\ results[start].CashFlow_LoanBalance > 0
           /\ aux[E].balance_before > 0
           /\ IncomeCoversBalance(E)
           /\ results[E].CashFlow_LoanBalance = 0
           /\ results[E + 1].CashFlow_LoanPayment = 0

\* the payback section is entered in row k: a loan, a balance, the start
\* month reached
PaybackEntered(k) ==
    /\ cfg.enable_initial_loan
    /\ BalanceAfterInterest(k) > 0
    /\ k >= cfg.loan_payback_start_month

\* the lump portion due in row k under Percentage of Profit + Lump
LumpDue(k) ==
    IF PaybackEntered(k) /\ ~aux[k].lump_paid_before /\ cfg.loan_lump_sum > 0
    THEN Min3(cfg.loan_lump_sum, BalanceAfterInterest(k),
              aux[k].funding_recognized)
    ELSE 0

\* the percentage portion due in row k once the lump portion is paid
PercentageDue(k, lump) ==
    IF PaybackEntered(k) /\ cfg.loan_percent_of_profit > 0
       /\ aux[k].net_income_before_payback > 0
       /\ BalanceAfterInterest(k) - lump > 0
    THEN Min2((aux[k].net_income_before_payback * cfg.loan_percent_of_profit)
                  \div 100,
              BalanceAfterInterest(k) - lump)
    ELSE 0

\* C25: under Percentage of Profit + Lump the lump portion min(loan_lump_sum,
\* balance, funding inflow) reduces the balance and the funding inflow of the
\* period by the same amount and leaves the net income as it was; only the
\* percentage portion, taken on the net income without the lump, reduces the
\* net income.
C25_LumpLeavesNetIncome ==
    cfg.loan_payback_strategy = "Percentage of Profit + Lump" =>
        \A k \in Rows :
            /\ aux[k].lump = LumpDue(k)
            /\ results[k].CashFlow_FundingInflow
                   = aux[k].funding_recognized - LumpDue(k)
            /\ results[k].CashFlow_LoanPayment
                   = LumpDue(k) + PercentageDue(k, LumpDue(k))
            /\ results[k].CashFlow_LoanBalance
                   = BalanceAfterInterest(k) - LumpDue(k)
                     - PercentageDue(k, LumpDue(k))
            /\ results[k].Profit_NetIncome
                   = aux[k].net_income_before_payback
                     - PercentageDue(k, LumpDue(k))

\* C25 witness: a row pays a lump portion out of the funding inflow and a
\* percentage portion out of a positive net income.
C25_Witness ==
    /\ cfg.loan_payback_strategy = "Percentage of Profit + Lump"
    /\ \E k \in Rows :
        /\ aux[k].lump > 0
        /\ results[k].CashFlow_FundingInflow
               = aux[k].funding_recognized - aux[k].lump
        /\ results[k].CashFlow_LoanPayment > aux[k].lump
        /\ results[k].Profit_NetIncome > 0
        /\ results[k].Profit_NetIncome
               = aux[k].net_income_before_payback
                 - (results[k].CashFlow_LoanPayment - aux[k].lump)

\* the stored headcount of a variable role before the period of row k: the
\* configured headcount for the first row, the stored headcount after the
\* preceding row otherwise
StoredBefore(role, k) ==
    IF k = 1 THEN cfg.variable_staff_info[role].headcount
    ELSE aux[k - 1].stored_headcount[role]

\* the one-off cost of moving a role from previous to required employees
OneOffCost(required, previous) ==
    IF required > previous THEN 10000 * (required - previous)
    ELSE IF required < previous THEN 5000 * (previous - required)
    ELSE 0

\* C26: after every period the stored headcount of each variable role is the
\* required headcount of that period, which follows from the workload and
\* the capacity of that period alone; the one-off cost of the role is 10000
\* per employee that required exceeds the previous headcount and 5000 per
\* employee that it falls short of it, the previous headcount being the
\* stored headcount of the preceding period (the configured headcount for
\* the first period).
C26_StoredHeadcountIsRequired ==
    \A k \in Rows : \A role \in VariableRoles :
        /\ aux[k].stored_headcount[role] = aux[k].required_staff[role]
        /\ IF FollowsWorkload(role)
           THEN IsCeilOfWorkload(aux[k].required_staff[role], role, k)
           ELSE aux[k].required_staff[role] = 1
        /\ aux[k].role_cost[role] - PlainRoleCost(role, k)
               = OneOffCost(aux[k].required_staff[role], StoredBefore(role, k))
        /\ k = Len(results) =>
               current_variable_staff_headcount[role]
                   = aux[k].required_staff[role]

\* C26 witness: in one run a role was hired for from a positive headcount
\* (hire cost for the added employees only), a role was cut, and the first
\* period of some role started from its configured headcount above the
\* required one.
C26_Witness ==
    \E j, k \in Rows : \E hired, cut, first \in VariableRoles :
        /\ j > 1 /\ StoredBefore(hired, j) > 0
        /\ aux[j].required_staff[hired] > StoredBefore(hired, j)
        /\ aux[j].role_cost[hired] - PlainRoleCost(hired, j)
               = 10000 * (aux[j].required_staff[hired] - StoredBefore(hired, j))
        /\ aux[j].stored_headcount[hired] = aux[j].required_staff[hired]
        /\ k > 1
        /\ aux[k].required_staff[cut] < StoredBefore(cut, k)
        /\ aux[k].role_cost[cut] - PlainRoleCost(cut, k)
               = 5000 * (StoredBefore(cut, k) - aux[k].required_staff[cut])
        /\ aux[k].stored_headcount[cut] = aux[k].required_staff[cut]
        /\ aux[1].required_staff[first]
               < cfg.variable_staff_info[first].headcount
        /\ aux[1].role_cost[first] > PlainRoleCost(first, 1)

\* C28: Clients_Starting of the first row is initial_clients, and
\* Clients_Starting of every later row is Clients_Ending of the row before.
C28_ClientsCarriedOver ==
    \A k \in Rows :
        IF k = 1
        THEN results[k].Clients_Starting = cfg.initial_clients
        ELSE results[k].Clients_Starting = results[k - 1].Clients_Ending

\* C28 witness: a run in which the cohort grew in one period and shrank in
\* another, each row after the first starting from the end of the row before
\* and away from initial_clients.
C28_Witness ==
    /\ 3 \in Rows
    /\ results[1].Clients_Starting = cfg.initial_clients
    /\ \E j, k \in Rows :
        /\ results[j].Clients_Ending > results[j].Clients_Starting
        /\ results[k].Clients_Ending < results[k].Clients_Starting
        /\ k + 1 \in Rows
        /\ results[k + 1].Clients_Starting = results[k].Clients_Ending
        /\ results[k + 1].Clients_Starting # cfg.initial_clients

\* C29: for every strategy CashFlow_LoanPayment is 0 in every period whose
\* 1-based index is below loan_payback_start_month, and 0 in every period
\* when enable_initial_loan is false or the strategy is none; under Lump +
\* Timeline a lump portion is paid only in the period equal to
\* loan_payback_start_month.
C29_NoPaymentBeforeStart ==
    \A k \in Rows :
        /\ k < cfg.loan_payback_start_month
               => results[k].CashFlow_LoanPayment = 0
        /\ (~cfg.enable_initial_loan \/ cfg.loan_payback_strategy = "none")
               => results[k].CashFlow_LoanPayment = 0
        /\ (cfg.loan_payback_strategy = "Lump + Timeline" /\ aux[k].lump > 0)
               => k = cfg.loan_payback_start_month

\* C29 witness: under Lump + Timeline with the payback starting in period 2,
\* period 1 had a balance and a positive net income and paid nothing, period
\* 2 paid a part of the lump, and period 3, with a balance, a positive net
\* income and the lump not yet paid in full, paid no lump portion.
C29_Witness ==
    /\ cfg.loan_payback_strategy = "Lump + Timeline"
    /\ cfg.enable_initial_loan
    /\ cfg.loan_payback_start_month = 2
    /\ 3 \in Rows
    /\ aux[1].balance_before > 0
    /\ aux[1].net_income_before_payback > 0
    /\ results[1].CashFlow_LoanPayment = 0
    /\ aux[2].lump > 0
    /\ aux[3].balance_before > 0
    /\ aux[3].net_income_before_payback > 0
    /\ ~aux[3].lump_paid_before
    /\ aux[3].lump = 0

\* C30: once CashFlow_LoanBalance is 0 in a row it is 0 in every later row,
\* and the later rows have no interest and a payment of 0;
\* CashFlow_LoanInflow is 0 in every row.
C30_ZeroBalanceStays ==
    \A k \in Rows :
        /\ results[k].CashFlow_LoanInflow = 0
        /\ \A j \in Rows :
               (j < k /\ results[j].CashFlow_LoanBalance = 0) =>
                   /\ results[k].CashFlow_LoanBalance = 0
                   /\ aux[k].interest_for_period = 0
                   /\ results[k].CashFlow_LoanPayment = 0
                   /\ results[k].Profit_NetIncome
                          = results[k].Profit_EBITDA - aux[k].rd_cut

\* C30 witness: a loan at interest was cleared by a payment in one row, and
\* the next rows, with a positive net income, carry no balance, no interest
\* and no payment.
C30_Witness ==
    \E j \in Rows :
        /\ cfg.loan_interest_rate_annual > 0
        /\ aux[j].balance_before > 0
        /\ results[j].CashFlow_LoanPayment > 0
        /\ results[j].CashFlow_LoanBalance = 0
        /\ j + 2 \in Rows
        /\ \A k \in {j + 1, j + 2} :
            /\ results[k].Profit_NetIncome > 0
            /\ results[k].CashFlow_LoanBalance = 0
            /\ results[k].CashFlow_LoanPayment = 0

----------------------------------------------------------------------------
\* Invocations sharing their argument objects

RECURSIVE LedgerFrom(_, _, _, _)
\* the ledger of an invocation that runs on its own from period k on, with
\* the rolling values st and the rows computed so far
LedgerFrom(c, k, st, rows) ==
    IF k >= Len(st.dt_list) THEN rows
    ELSE IF PeriodRaises(c, k) THEN << >>
    ELSE LET r == PeriodBody(c, k, st)
         IN  LedgerFrom(c, k + 1,
                 [ dt_list |-> st.dt_list,
                   current_clients |-> r.current_clients,
                   current_cash |-> r.current_cash,
                   loan_balance |-> r.loan_balance,
                   lumpsum_already_paid |-> r.lumpsum_already_paid,
                   current_variable_staff_headcount |->
                       r.current_variable_staff_headcount ],
                 Append(rows, r.row))

\* the ledger that one invocation on the arguments c produces when it runs
\* alone
LedgerAlone(c) ==
    LedgerFrom(c, 0,
        [ dt_list |-> BuildDtList(c.start_date, c.end_date, NormFreq(c.frequency)),
          current_clients |-> c.initial_clients,
          current_cash |-> c.initial_cash,
          loan_balance |-> InitialLoanBalance(c),
          lumpsum_already_paid |-> c.lump_sum_paid,
          current_variable_staff_headcount |-> << >> ],
        << >>)

\* rows are the first rows of ledger
IsPrefix(rows, ledger) ==
    /\ Len(rows) <= Len(ledger)
    /\ \A k \in DOMAIN rows : rows[k] = ledger[k]

\* the rows of both invocations and every returned ledger are those of an
\* invocation that runs alone
LedgersAsAlone ==
    LET alone == LedgerAlone(cfg)
    IN  /\ IsPrefix(results, alone)
        /\ IsPrefix(suspended.results, alone)
        /\ \A i \in DOMAIN returned : returned[i] = alone

\* C27: generate_projection never writes to the mappings and lists it
\* receives (the headcount fields of variable_staff_info included): no step
\* of an invocation changes the arguments, and invocations that share the
\* same argument objects, one after another or interleaved, each compute
\* and return the ledger they produce when run alone.
C27_ArgumentsNeverWritten ==
    /\ [][cfg' = cfg]_vars
    /\ []LedgersAsAlone

\* C27 witness: a second ledger was returned by an invocation that ran while
\* another one, set aside in the middle of its loop, was in progress; the
\* returning invocation moved the variable headcounts away from the
\* configured ones and paid a lump.
C27_Witness ==
    /\ Len(returned) >= 2
    /\ pc = "idle"
    /\ Len(results) >= 2
    /\ returned[Len(returned)] = results
    /\ suspended.pc = "loop"
    /\ suspended.idx > 0
    /\ suspended.idx < Len(suspended.dt_list)
    /\ \E k \in DOMAIN aux : aux[k].lump > 0
    /\ \E role \in DOMAIN current_variable_staff_headcount :
          current_variable_staff_headcount[role]
              # cfg.variable_staff_info[role].headcount

====
